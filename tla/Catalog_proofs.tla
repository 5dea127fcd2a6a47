--------------------------- MODULE Catalog_proofs ---------------------------
(***************************************************************************)
(* The writers of the catalog (CatalogStore) and its reader (Recommend).   *)
(*                                                                         *)
(* For any rows, lists, sources and numbers of writers: writes that do not *)
(* fall between the check and the write of another row keep one group per  *)
(* task (others do not: the run MCCatalogStoreRace), and however the       *)
(* writers crash and compete for a source, none is stored as ingested of   *)
(* which no row is in the catalog.                                         *)
(*                                                                         *)
(* For any catalog, weights and precision of the scores: the sort key is a *)
(* strict total order, so the ranking lists every row once and the         *)
(* shortlist is its beginning; rounding keeps the order of the exact       *)
(* scores, so the offer follows them.                                      *)
(***************************************************************************)
EXTENDS CatalogStore, Recommend, SumTheorems, SequenceTheorems

USE BatchAssumption, NullAssumption, CrashAssumption, ReportAssumption

-----------------------------------------------------------------------------
\* Types.

LEMMA InitTypes == Init => TypeOK
<1>1. Init => raced \in BOOLEAN
  BY DEF Init
<1>2. ASSUME Init
      PROVE  /\ catalog \in [Group -> [Key -> Task \cup {NoTask, Absent}]]
             /\ rows \in [Writer -> Seq(Row)] /\ batch \in [Writer -> Batch \cup {<<>>}]
  BY <1>2 DEF Init
<1> QED
  BY <1>1, <1>2 DEF Init, TypeOK, Status

LEMMA CloseTypes ==
    ASSUME TypeOK, NEW w \in Writer, Close(w),
           stored' \in [Source -> Status],
           \A s \in Source : stored'[s] # stored[s] =>
               pc[w] \in {"checking", "writing", "written"} /\ s = src[w]
    PROVE  /\ pc' \in [Writer -> {"idle", "extracting", "extracted", "checking", "writing",
                                  "written"}]
           /\ src' \in [Writer -> Source \cup {NoSource}]
           /\ \A v \in Writer : pc'[v] \in {"extracting", "extracted"} => src'[v] \in Source
           /\ rows' \in [Writer -> Seq(Row)]
           /\ \A v \in Writer : pc'[v] \in {"checking", "writing"} => rows'[v] # <<>>
           /\ batch' \in [Writer -> Batch \cup {<<>>}]
           /\ open' \subseteq {s \in Source : stored'[s] = "unseen"}
<1> USE DEF Close, Step, TypeOK
<1>1. open' \subseteq {s \in Source : stored'[s] = "unseen"}
  OBVIOUS
<1> QED
  BY <1>1

LEMMA CommitTypes ==
    ASSUME TypeOK, NEW w \in Writer, CommitSource(w)
    PROVE  /\ stored' \in [Source -> Status] /\ extracted' \in [Source -> Batch \cup {<<>>}]
           /\ \A s \in Source : stored'[s] # stored[s] => s = src[w]
<1>1. CASE src[w] \in open
  <2>1. src[w] \in Source /\ batch[w] \in Batch \cup {<<>>}
    BY <1>1 DEF TypeOK
  <2>2. extracted' \in [Source -> Batch \cup {<<>>}]
    BY <1>1, <2>1 DEF CommitSource, TypeOK
  <2>3. /\ stored' \in [Source -> Status]
        /\ \A s \in Source : stored'[s] # stored[s] => s = src[w]
    BY <1>1, <2>1 DEF CommitSource, TypeOK, Status
  <2> QED
    BY <2>2, <2>3
<1>2. CASE src[w] \notin open
  BY <1>2 DEF CommitSource, TypeOK
<1> QED
  BY <1>1, <1>2

\* Types: every step.
LEMMA NextTypes == TypeOK /\ [Next]_vars => TypeOK'
<1> SUFFICES ASSUME TypeOK, [Next]_vars PROVE TypeOK'
    OBVIOUS
<1>1. ASSUME NEW w \in Writer, NEW list \in Batch, Load(w, list) PROVE TypeOK'
  BY <1>1 DEF Load, Valid, Step, TypeOK
<1>2. ASSUME NEW w \in Writer, NEW s \in Source, Lookup(w, s) PROVE TypeOK'
  BY <1>2 DEF Lookup, Step, TypeOK
<1>3. ASSUME NEW w \in Writer, Extract(w) PROVE TypeOK'
  <2>1. CASE Close(w)
    BY <1>3, <2>1, CloseTypes DEF Extract, Valid, TypeOK
  <2>2. ASSUME NEW list \in Batch \cup {<<>>},
               rows' = [rows EXCEPT ![w] = list], batch' = [batch EXCEPT ![w] = list],
               Step(w, "extracted"), UNCHANGED <<src, open>>
        PROVE  TypeOK'
    <3> HIDE DEF TypeOK
    <3>0. Batch \subseteq Seq(Row) /\ <<>> \in Seq(Row)
      BY BatchAssumption
    <3>1. list \in Seq(Row)
      BY <3>0
    <3>2. /\ pc'[w] = "extracted"
          /\ rows' \in [Writer -> Seq(Row)] /\ batch' \in [Writer -> Batch \cup {<<>>}]
      BY <2>2, <3>1 DEF Step, TypeOK
    <3> QED
      BY <1>3, <2>2, <3>2 DEF Extract, Valid, Step, TypeOK
  <2> QED
    BY <1>3, <2>1, <2>2 DEF Extract, Valid
<1>4. ASSUME NEW w \in Writer, AddSource(w) PROVE TypeOK'
  <2>1. CASE Close(w)
    BY <1>4, <2>1, CloseTypes DEF AddSource, TypeOK
  <2>2. CASE stored[src[w]] = "unseen"
    <3>1. src[w] \in Source
      BY <1>4 DEF AddSource, TypeOK
    <3> QED
      BY <1>4, <2>2, <3>1 DEF AddSource, Inserted, Step, job, TypeOK
  <2> QED
    BY <1>4, <2>1, <2>2 DEF AddSource
<1>5. ASSUME NEW w \in Writer, CheckTask(w) PROVE TypeOK'
  <2>1. CASE Close(w)
    BY <1>5, <2>1, CloseTypes DEF CheckTask, TypeOK
  <2>2. CASE Step(w, "writing") /\ UNCHANGED <<job, open>>
    BY <1>5, <2>2 DEF CheckTask, Step, job, TypeOK
  <2> QED
    BY <1>5, <2>1, <2>2 DEF CheckTask
<1>6. ASSUME NEW w \in Writer, WriteRow(w) PROVE TypeOK'
  <2>1. rows[w] \in Seq(Row) /\ rows[w] # <<>>
    BY <1>6 DEF WriteRow, TypeOK
  <2>2. Head(rows[w]) \in Row /\ Tail(rows[w]) \in Seq(Row)
    BY <2>1
  <2>3. catalog' \in [Group -> [Key -> Task \cup {NoTask, Absent}]]
    BY <1>6, <2>2 DEF WriteRow, Row, TypeOK
  <2>4. /\ stored' \in [Source -> Status] /\ extracted' \in [Source -> Batch \cup {<<>>}]
        /\ \A s \in Source : stored'[s] # stored[s] => s = src[w]
    BY CommitTypes, <1>6 DEF WriteRow
  <2>5. open' \subseteq {s \in Source : stored'[s] = "unseen"}
    BY <1>6, <2>4 DEF WriteRow, TypeOK
  <2>6. raced' \in BOOLEAN
    BY <1>6 DEF WriteRow, NoteRace
  <2>7. /\ pc' \in [Writer -> {"idle", "extracting", "extracted", "checking", "writing",
                               "written"}]
        /\ \A v \in Writer : pc'[v] \in {"extracting", "extracted"} => src'[v] \in Source
        /\ \A v \in Writer : pc'[v] \in {"checking", "writing"} => rows'[v] # <<>>
    BY <1>6, <2>2 DEF WriteRow, Step, TypeOK
  <2> QED
    BY <1>6, <2>2, <2>3, <2>4, <2>5, <2>6, <2>7 DEF WriteRow, TypeOK
<1>7. ASSUME NEW w \in Writer, Finish(w) PROVE TypeOK'
  <2>1. /\ stored' \in [Source -> Status] /\ extracted' \in [Source -> Batch \cup {<<>>}]
        /\ \A s \in Source : stored'[s] # stored[s] => s = src[w]
    BY CommitTypes, <1>7 DEF Finish
  <2> QED
    BY <1>7, <2>1, CloseTypes DEF Finish, TypeOK
<1>8. ASSUME NEW w \in Writer, Crash(w) PROVE TypeOK'
  BY <1>8, CloseTypes DEF Crash, TypeOK
<1>9. ASSUME NEW w \in Writer, NEW s \in Report, NEW upstream \in Upstream,
             ImportReport(w, s, upstream)
      PROVE  TypeOK'
  <2> DEFINE list == build_rows(upstream)
  <2>1. list \in Batch \cup {<<>>} /\ list \in Seq(Row) /\ s \in Source
    <3>1. list \in Batch \cup {<<>>}
      BY ReportAssumption
    <3>2. <<>> \in Seq(Row)
      OBVIOUS
    <3> QED
      BY <3>1, <3>2, BatchAssumption, ReportAssumption
  <2> HIDE DEF list
  <2>2. rows' = [rows EXCEPT ![w] = list] /\ batch' = [batch EXCEPT ![w] = list]
    BY <1>9 DEF ImportReport, Valid, list
  <2>3. \/ src' = [src EXCEPT ![w] = s] /\ Step(w, "extracted")
        \/ Step(w, IF list = <<>> THEN "written" ELSE "checking") /\ UNCHANGED src
    BY <1>9 DEF ImportReport, list
  <2>4. UNCHANGED <<catalog, raced, stored, extracted, open, crashes>> /\ pc[w] = "idle"
    BY <1>9 DEF ImportReport
  <2>5. CASE src' = [src EXCEPT ![w] = s] /\ Step(w, "extracted")
    BY <2>1, <2>2, <2>4, <2>5 DEF Step, TypeOK
  <2>6. CASE Step(w, IF list = <<>> THEN "written" ELSE "checking") /\ UNCHANGED src
    BY <2>1, <2>2, <2>4, <2>6 DEF Step, TypeOK
  <2> QED
    BY <2>3, <2>5, <2>6
<1>10. CASE UNCHANGED vars
  BY <1>10 DEF vars, job, TypeOK
<1> QED
  BY <1>1, <1>2, <1>3, <1>4, <1>5, <1>6, <1>7, <1>8, <1>9, <1>10 DEF Next

\* The values of the catalog, the sources and the writers.
THEOREM CatalogTypes == Spec => []TypeOK
BY InitTypes, NextTypes, PTL DEF Spec

-----------------------------------------------------------------------------
\* Writes that nobody interferes with keep one group per task.

\* The row about to be written still fits the catalog.
CheckedFits == \A w \in Writer : pc[w] = "writing" => Fits(Head(rows[w]))

GroupInv == TypeOK /\ (~ raced => TaskOwnsOneGroup /\ CheckedFits)

\* A row that fits gives no task a second group.
LEMMA FittingRowKeepsGroups ==
    ASSUME TypeOK, TaskOwnsOneGroup, NEW row \in Row, Fits(row),
           catalog' = [catalog EXCEPT ![row.group][row.key] = row.task]
    PROVE  TaskOwnsOneGroup'
<1> SUFFICES ASSUME NEW g \in Group, NEW h \in Group, NEW k \in Key, NEW l \in Key,
                    catalog'[g][k] = catalog'[h][l], catalog'[g][k] \in Task
             PROVE  g = h
    BY DEF TaskOwnsOneGroup
<1>1. row.group \in Group /\ row.key \in Key
  BY DEF Row
<1>2. \A f \in Group, m \in Key :
         catalog'[f][m] = IF f = row.group /\ m = row.key THEN row.task ELSE catalog[f][m]
  BY <1>1 DEF TypeOK
<1>3. \A f \in Group, m \in Key :
         catalog[f][m] = row.task /\ row.task \in Task => f = row.group
  BY <1>1 DEF Fits, Owners, TaskOwnsOneGroup
<1> QED
  BY <1>1, <1>2, <1>3 DEF TaskOwnsOneGroup

\* One group per task: every step.
LEMMA NextGroupInv == GroupInv /\ [Next]_vars => GroupInv'
<1> SUFFICES ASSUME TypeOK, TypeOK', [Next]_vars, ~ raced', ~ raced => TaskOwnsOneGroup /\ CheckedFits
             PROVE  TaskOwnsOneGroup' /\ CheckedFits'
    BY NextTypes DEF GroupInv
<1>1. ASSUME NEW w \in Writer, WriteRow(w) PROVE TaskOwnsOneGroup' /\ CheckedFits'
  <2>1. ~ raced /\ \A v \in Writer \ {w} : pc[v] # "writing"
    BY <1>1 DEF WriteRow, NoteRace, TypeOK
  <2>2. Head(rows[w]) \in Row /\ Fits(Head(rows[w]))
    BY <1>1, <2>1 DEF CheckedFits, WriteRow, TypeOK
  <2>3. TaskOwnsOneGroup'
    BY <1>1, <2>1, <2>2, FittingRowKeepsGroups DEF WriteRow
  <2>4. \A v \in Writer : pc'[v] # "writing"
    BY <1>1, <2>1 DEF TypeOK, WriteRow, Step
  <2> QED
    BY <2>3, <2>4 DEF CheckedFits
<1>2. ASSUME UNCHANGED <<catalog, raced>>,
             \A w \in Writer : pc'[w] = "writing" => /\ rows'[w] = rows[w]
                                                     /\ pc[w] = "writing" \/ Fits(Head(rows[w]))
      PROVE  TaskOwnsOneGroup' /\ CheckedFits'
  BY <1>2 DEF TaskOwnsOneGroup, CheckedFits, Fits, Owners
<1>3. ASSUME NEW w \in Writer, CheckTask(w) PROVE TaskOwnsOneGroup' /\ CheckedFits'
  BY <1>2, <1>3 DEF CheckTask, Close, Step, job, TypeOK
<1>4. ASSUME NEW w \in Writer, NEW list \in Batch, Load(w, list)
      PROVE  TaskOwnsOneGroup' /\ CheckedFits'
  BY <1>2, <1>4 DEF Load, Valid, Step, TypeOK
<1>5. ASSUME NEW w \in Writer, NEW s \in Source, Lookup(w, s)
      PROVE  TaskOwnsOneGroup' /\ CheckedFits'
  BY <1>2, <1>5 DEF Lookup, Step, TypeOK
<1>6. ASSUME NEW w \in Writer, Extract(w) \/ AddSource(w) \/ Finish(w) \/ Crash(w)
      PROVE  TaskOwnsOneGroup' /\ CheckedFits'
  BY <1>2, <1>6 DEF Extract, Valid, AddSource, Finish, Crash, Inserted, Close, Step, job, TypeOK
<1>7. ASSUME NEW w \in Writer, NEW s \in Report, NEW upstream \in Upstream,
             ImportReport(w, s, upstream)
      PROVE  TaskOwnsOneGroup' /\ CheckedFits'
  <2>1. /\ UNCHANGED <<catalog, raced>>
        /\ \A v \in Writer \ {w} : pc'[v] = pc[v] /\ rows'[v] = rows[v]
        /\ pc'[w] # "writing"
    BY <1>7 DEF ImportReport, Valid, Step, TypeOK
  <2> QED
    BY <1>2, <2>1
<1>8. CASE UNCHANGED vars
  BY <1>2, <1>8 DEF vars, job
<1> QED
  BY <1>1, <1>3, <1>4, <1>5, <1>6, <1>7, <1>8 DEF Next

\* Every task type is measured by one (benchmark, metric) as long as no row was
\* written between another row's check and its write, for any number of writers,
\* re-typed rows and interrupted lists included.
THEOREM UnracedWritesKeepOneGroup == Spec => []UnracedTasksOwnOneGroup
<1>1. Init => GroupInv
  BY InitTypes DEF Init, GroupInv, TaskOwnsOneGroup, CheckedFits
<1>2. Spec => []GroupInv
  BY <1>1, NextGroupInv, PTL DEF Spec
<1>3. GroupInv => UnracedTasksOwnOneGroup
  BY DEF GroupInv, UnracedTasksOwnOneGroup
<1> QED
  BY <1>2, <1>3, PTL

-----------------------------------------------------------------------------
\* An ingested source has rows, with any number of writers.

Inside(w) == pc[w] \in {"checking", "writing", "written"}

\* A source that a writer has inserted is open or was committed.
InsertedIsKnown ==
    \A w \in Writer : Inside(w) /\ src[w] \in Source =>
        src[w] \in open \/ stored[src[w]] # "unseen"

\* An open source is one writer's.
OneInserter ==
    \A v, w \in Writer : Inside(v) /\ Inside(w) /\ src[v] = src[w] /\ src[v] \in open => v = w

\* No row of an open source is written yet.
OpenIsUntouched ==
    \A w \in Writer : Inside(w) /\ src[w] \in open => rows[w] = batch[w]

WrittenIsEmpty == \A w \in Writer : pc[w] = "written" => rows[w] = <<>>

IdleHasNoSource == \A w \in Writer : pc[w] = "idle" => src[w] = NoSource

ExtractedIsWhole == \A w \in Writer : pc[w] = "extracted" => rows[w] = batch[w]

Shape ==
    /\ InsertedIsKnown
    /\ OneInserter
    /\ OpenIsUntouched
    /\ WrittenIsEmpty
    /\ IdleHasNoSource
    /\ ExtractedIsWhole

SourceInv ==
    /\ TypeOK
    /\ Shape
    /\ IngestedHasRows

\* Writing a row adds it and takes none out.
LEMMA RowsStay ==
    ASSUME TypeOK, NEW w \in Writer, WriteRow(w)
    PROVE  /\ Head(rows[w]) \in Row
           /\ \A row \in Row : row = Head(rows[w]) \/ Written(row) => Written(row)'
<1>1. rows[w] \in Seq(Row) /\ rows[w] # <<>>
  BY DEF WriteRow, TypeOK
<1>2. Head(rows[w]) \in Row
  BY <1>1
<1>3. PICK new \in Row : new = Head(rows[w])
  BY <1>2
<1>4. new.group \in Group /\ new.key \in Key /\ new.task # Absent
  BY DEF Row
<1>5. catalog' = [catalog EXCEPT ![new.group][new.key] = new.task]
  BY <1>3 DEF WriteRow
<1>6. \A row \in Row : row = new \/ Written(row) => Written(row)'
  BY <1>4, <1>5 DEF Written, TypeOK, Row
<1> QED
  BY <1>2, <1>3, <1>6

\* Ingested sources keep their rows when nothing is committed.
LEMMA QuietKeepsIngested ==
    ASSUME IngestedHasRows, UNCHANGED <<catalog, stored, extracted>>
    PROVE  IngestedHasRows'
BY DEF IngestedHasRows, Written

\* The other writers' part of a step of w.
Alone(w) ==
    \A v \in Writer \ {w} : /\ pc'[v] = pc[v] /\ src'[v] = src[v]
                           /\ rows'[v] = rows[v] /\ batch'[v] = batch[v]

\* A step that takes w out of its transaction, or keeps it out, commits nothing
\* of another writer's: the shape of the open transactions stays.
LEMMA OutsideKeepsShape ==
    ASSUME TypeOK, Shape, NEW w \in Writer, Alone(w), ~ Inside(w)',
           pc'[w] = "idle" => src'[w] = NoSource,
           pc'[w] = "extracted" => rows'[w] = batch'[w],
           \A s \in Source : s # src[w] => stored'[s] = stored[s],
           \A s \in Source : stored[s] # "unseen" => stored'[s] # "unseen",
           open' = IF Inside(w) THEN open \ {src[w]} ELSE open
    PROVE  Shape'
<1> USE DEF Shape, Alone
<1>1. InsertedIsKnown'
  <2> SUFFICES ASSUME NEW v \in Writer, Inside(v)', src'[v] \in Source, src'[v] \notin open'
               PROVE  stored'[src'[v]] # "unseen"
      BY DEF InsertedIsKnown
  <2>1. v # w /\ Inside(v) /\ src'[v] = src[v]
    BY DEF Inside
  <2>2. CASE src[v] \in open
    BY <2>1, <2>2 DEF OneInserter
  <2>3. CASE src[v] \notin open
    BY <2>1, <2>3 DEF InsertedIsKnown
  <2> QED
    BY <2>2, <2>3
<1>2. OneInserter' /\ OpenIsUntouched'
  BY DEF OneInserter, OpenIsUntouched, Inside
<1>3. WrittenIsEmpty' /\ IdleHasNoSource' /\ ExtractedIsWhole'
  BY DEF WrittenIsEmpty, IdleHasNoSource, ExtractedIsWhole, Inside
<1> QED
  BY <1>1, <1>2, <1>3

LEMMA CloseIsOutside ==
    ASSUME TypeOK, NEW w \in Writer, Close(w)
    PROVE  /\ Alone(w) /\ ~ Inside(w)' /\ src'[w] = NoSource /\ pc'[w] = "idle"
           /\ open' = IF Inside(w) THEN open \ {src[w]} ELSE open
BY DEF Close, Step, Alone, Inside, TypeOK

\* Sources: every step.
LEMMA NextSourceInv == SourceInv /\ [Next]_vars => SourceInv'
<1> SUFFICES ASSUME SourceInv, [Next]_vars PROVE Shape' /\ IngestedHasRows'
    BY NextTypes DEF SourceInv
<1> USE DEF SourceInv
<1>1. ASSUME NEW w \in Writer, NEW list \in Batch, Load(w, list)
      PROVE  Shape' /\ IngestedHasRows'
  <2>1. /\ Alone(w) /\ open' = open /\ stored' = stored
        /\ src'[w] = NoSource /\ pc'[w] = "checking"
    BY <1>1 DEF Load, Valid, Step, Alone, Shape, IdleHasNoSource, TypeOK
  <2>2. src'[w] \notin Source /\ src'[w] \notin open
    BY <2>1 DEF TypeOK
  <2>3. InsertedIsKnown' /\ OneInserter' /\ OpenIsUntouched'
    BY <2>1, <2>2 DEF Alone, Shape, InsertedIsKnown, OneInserter, OpenIsUntouched, Inside
  <2>4. WrittenIsEmpty' /\ IdleHasNoSource' /\ ExtractedIsWhole'
    BY <2>1 DEF Alone, Shape, WrittenIsEmpty, IdleHasNoSource, ExtractedIsWhole
  <2> QED
    BY <1>1, <2>3, <2>4, QuietKeepsIngested DEF Load, Valid, Shape
<1>2. ASSUME NEW w \in Writer, NEW s \in Source, Lookup(w, s)
      PROVE  Shape' /\ IngestedHasRows'
  <2>1. Alone(w) /\ ~ Inside(w) /\ pc'[w] = "extracting"
    BY <1>2 DEF Lookup, Step, Alone, Inside, TypeOK
  <2>2. Shape'
    BY <1>2, <2>1, OutsideKeepsShape DEF Lookup, Inside
  <2> QED
    BY <1>2, <2>2, QuietKeepsIngested DEF Lookup
<1>3. ASSUME NEW w \in Writer, Close(w), UNCHANGED <<catalog, stored, extracted>>
      PROVE  Shape' /\ IngestedHasRows'
  BY <1>3, CloseIsOutside, OutsideKeepsShape, QuietKeepsIngested
<1>4. ASSUME NEW w \in Writer, Extract(w) PROVE Shape' /\ IngestedHasRows'
  <2>1. CASE Close(w)
    BY <1>3, <1>4, <2>1 DEF Extract, Valid
  <2>2. CASE Step(w, "extracted") /\ UNCHANGED <<src, open>>
    <3>1. Alone(w) /\ ~ Inside(w) /\ pc'[w] = "extracted" /\ rows'[w] = batch'[w]
      BY <1>4, <2>2 DEF Extract, Valid, Close, Step, Alone, Inside, TypeOK
    <3>2. Shape'
      BY <1>4, <2>2, <3>1, OutsideKeepsShape DEF Extract, Valid, Inside
    <3> QED
      BY <1>4, <3>2, QuietKeepsIngested DEF Extract, Valid
  <2> QED
    BY <1>4, <2>1, <2>2 DEF Extract, Valid
<1>5. ASSUME NEW w \in Writer, AddSource(w) PROVE Shape' /\ IngestedHasRows'
  <2>1. CASE Close(w)
    BY <1>3, <1>5, <2>1 DEF AddSource
  <2>2. CASE /\ stored[src[w]] = "unseen"
             /\ Inserted(w) /\ open' = open \cup {src[w]}
    <3>1. /\ Alone(w) /\ UNCHANGED <<src, rows, batch, stored>>
          /\ pc'[w] = IF rows[w] = <<>> THEN "written" ELSE "checking"
          /\ src[w] \in Source /\ src[w] \notin open
      BY <1>5, <2>2 DEF AddSource, Inserted, Step, job, Alone, TypeOK
    <3>2. \A v \in Writer : Inside(v) => src[v] # src[w]
      BY <2>2, <3>1 DEF Shape, InsertedIsKnown
    <3>3. rows[w] = batch[w]
      BY <1>5 DEF AddSource, Shape, ExtractedIsWhole
    <3>4. Shape'
      BY <2>2, <3>1, <3>2, <3>3
         DEF Alone, Shape, InsertedIsKnown, OneInserter, OpenIsUntouched, WrittenIsEmpty,
             IdleHasNoSource, ExtractedIsWhole, Inside
    <3> QED
      BY <1>5, <3>4, QuietKeepsIngested DEF AddSource
  <2> QED
    BY <1>5, <2>1, <2>2 DEF AddSource
<1>6. ASSUME NEW w \in Writer, CheckTask(w) PROVE Shape' /\ IngestedHasRows'
  <2>1. CASE Close(w)
    BY <1>3, <1>6, <2>1 DEF CheckTask
  <2>2. CASE Step(w, "writing") /\ UNCHANGED <<job, open>>
    <3>1. Inside(w) /\ Alone(w) /\ pc'[w] = "writing" /\ UNCHANGED <<src, rows, batch, stored>>
      BY <1>6, <2>2 DEF CheckTask, Step, job, Inside, Alone, TypeOK
    <3>2. Shape'
      BY <2>2, <3>1
         DEF Alone, Shape, InsertedIsKnown, OneInserter, OpenIsUntouched, WrittenIsEmpty,
             IdleHasNoSource, ExtractedIsWhole, Inside
    <3> QED
      BY <1>6, <3>2, QuietKeepsIngested DEF CheckTask
  <2> QED
    BY <1>6, <2>1, <2>2 DEF CheckTask
<1>7. ASSUME NEW w \in Writer, WriteRow(w) PROVE Shape' /\ IngestedHasRows'
  <2>1. /\ Inside(w) /\ Alone(w) /\ src' = src /\ open' = open \ {src[w]}
        /\ pc'[w] \in {"written", "checking"}
        /\ pc'[w] = "written" => rows'[w] = <<>>
    BY <1>7 DEF WriteRow, Step, Inside, Alone, TypeOK
  <2>2. /\ \A s \in Source : s # src[w] => stored'[s] = stored[s] /\ extracted'[s] = extracted[s]
        /\ \A s \in Source : stored[s] # "unseen" => stored'[s] # "unseen"
        /\ src[w] \in open => stored'[src[w]] = "ingested" /\ extracted'[src[w]] = batch[w]
        /\ src[w] \notin open => UNCHANGED <<stored, extracted>>
    <3>1. src[w] \in open => rows[w] = batch[w] /\ batch[w] # <<>>
      BY <1>7, <2>1 DEF Shape, OpenIsUntouched, WriteRow, TypeOK
    <3> QED
      BY <1>7, <3>1 DEF WriteRow, CommitSource, TypeOK
  <2>3. Shape'
    <3>1. InsertedIsKnown'
      BY <2>1, <2>2 DEF Alone, Shape, InsertedIsKnown, OneInserter, Inside, TypeOK
    <3>2. OneInserter' /\ OpenIsUntouched'
      BY <2>1 DEF Alone, Shape, OneInserter, OpenIsUntouched, Inside
    <3>3. WrittenIsEmpty' /\ IdleHasNoSource' /\ ExtractedIsWhole'
      BY <2>1 DEF Alone, Shape, WrittenIsEmpty, IdleHasNoSource, ExtractedIsWhole
    <3> QED
      BY <3>1, <3>2, <3>3 DEF Shape
  <2>4. IngestedHasRows'
    <3> SUFFICES ASSUME NEW s \in Source, stored'[s] = "ingested",
                        ~ (s \in Report /\ extracted'[s] = <<>>)
                 PROVE  \E i \in DOMAIN extracted'[s] :
                          \E row \in Row : row = extracted'[s][i] /\ Written(row)'
        BY DEF IngestedHasRows, Written
    <3>1. CASE s = src[w] /\ src[w] \in open
      <4>1. rows[w] = batch[w] /\ rows[w] \in Seq(Row) /\ rows[w] # <<>>
        BY <1>7, <2>1, <3>1 DEF Shape, OpenIsUntouched, WriteRow, TypeOK
      <4>2. extracted'[s] = rows[w] /\ 1 \in DOMAIN rows[w] /\ Head(rows[w]) = rows[w][1]
        BY <2>2, <3>1, <4>1
      <4> QED
        BY <1>7, <4>2, RowsStay
    <3>2. CASE ~ (s = src[w] /\ src[w] \in open)
      <4>1. stored[s] = "ingested" /\ extracted'[s] = extracted[s]
        BY <2>2, <3>2
      <4>2. PICK i \in DOMAIN extracted[s] : Written(extracted[s][i])
        BY <4>1 DEF IngestedHasRows
      <4>3. extracted[s] \in Seq(Row)
        BY BatchAssumption DEF TypeOK
      <4>4. extracted[s][i] \in Row
        BY <4>2, <4>3
      <4> QED
        BY <1>7, <4>1, <4>2, <4>4, RowsStay
    <3> QED
      BY <3>1, <3>2
  <2> QED
    BY <2>3, <2>4
<1>8. ASSUME NEW w \in Writer, Finish(w) PROVE Shape' /\ IngestedHasRows'
  <2>1. Inside(w) /\ catalog' = catalog /\ Close(w)
    BY <1>8 DEF Finish, Inside
  <2>2. /\ \A s \in Source : s # src[w] => stored'[s] = stored[s] /\ extracted'[s] = extracted[s]
        /\ \A s \in Source : stored[s] # "unseen" => stored'[s] # "unseen"
        /\ src[w] \in open => \/ stored'[src[w]] = "invalid"
                              \/ src[w] \in Report /\ extracted'[src[w]] = <<>>
        /\ src[w] \notin open => UNCHANGED <<stored, extracted>>
    <3>1. src[w] \in open => batch[w] = <<>>
      BY <1>8, <2>1 DEF Finish, Shape, OpenIsUntouched, WrittenIsEmpty
    <3> QED
      BY <1>8, <3>1 DEF Finish, CommitSource, TypeOK
  <2>3. Shape'
    BY <2>1, <2>2, CloseIsOutside, OutsideKeepsShape
  <2>4. IngestedHasRows'
    BY <2>1, <2>2 DEF IngestedHasRows, Written
  <2> QED
    BY <2>3, <2>4
<1>9. ASSUME NEW w \in Writer, Crash(w) PROVE Shape' /\ IngestedHasRows'
  BY <1>3, <1>9 DEF Crash
<1>10. CASE UNCHANGED vars
  BY <1>10, QuietKeepsIngested
     DEF vars, job, Shape, InsertedIsKnown, OneInserter, OpenIsUntouched, WrittenIsEmpty,
         IdleHasNoSource, ExtractedIsWhole, Inside
<1>11. ASSUME NEW w \in Writer, NEW s \in Report, NEW upstream \in Upstream,
              ImportReport(w, s, upstream)
       PROVE  Shape' /\ IngestedHasRows'
  <2>1. /\ Alone(w) /\ ~ Inside(w) /\ rows'[w] = batch'[w]
        /\ rows'[w] = build_rows(upstream) /\ src[w] = NoSource
        /\ UNCHANGED <<catalog, stored, extracted, open>>
    BY <1>11 DEF ImportReport, Valid, Step, Alone, Inside, Shape, IdleHasNoSource, TypeOK
  <2>2. CASE stored[s] = "unseen"
    <3>1. pc'[w] = "extracted"
      BY <1>11, <2>2 DEF ImportReport, Step, TypeOK
    <3> QED
      BY <2>1, <3>1, OutsideKeepsShape, QuietKeepsIngested DEF Inside
  <2>3. CASE stored[s] # "unseen"
    <3>1. /\ pc'[w] = IF rows'[w] = <<>> THEN "written" ELSE "checking"
          /\ src'[w] = NoSource
      BY <1>11, <2>1, <2>3 DEF ImportReport, Step, TypeOK
    <3>2. src'[w] \notin Source /\ src'[w] \notin open
      BY <3>1 DEF TypeOK
    <3>3. InsertedIsKnown' /\ OneInserter' /\ OpenIsUntouched'
      BY <2>1, <3>1, <3>2 DEF Alone, Shape, InsertedIsKnown, OneInserter, OpenIsUntouched, Inside
    <3>4. WrittenIsEmpty' /\ IdleHasNoSource' /\ ExtractedIsWhole'
      BY <2>1, <3>1 DEF Alone, Shape, WrittenIsEmpty, IdleHasNoSource, ExtractedIsWhole
    <3> QED
      BY <2>1, <3>3, <3>4, QuietKeepsIngested DEF Shape
  <2> QED
    BY <2>2, <2>3
<1> QED
  BY <1>1, <1>2, <1>4, <1>5, <1>6, <1>7, <1>8, <1>9, <1>10, <1>11
     DEF Next

\* A source is marked ingested only together with a row of it, however many
\* writers compete, whichever rows conflict and whoever dies.
THEOREM IngestedSourcesHaveRows == Spec => []IngestedHasRows
<1>1. Init => SourceInv
  BY InitTypes DEF Init, SourceInv, Shape, InsertedIsKnown, OneInserter, OpenIsUntouched,
                   WrittenIsEmpty, IdleHasNoSource, ExtractedIsWhole, Inside, IngestedHasRows
<1>2. Spec => []SourceInv
  BY <1>1, NextSourceInv, PTL DEF Spec
<1> QED
  BY <1>2, PTL DEF SourceInv

-----------------------------------------------------------------------------
\* The recommender.

USE KeyAssumption, ModelAssumption, TaskAssumption, ValueAssumption, UnitAssumption

-----------------------------------------------------------------------------
\* Rounding.

LEMMA PositiveDivision ==
    ASSUME NEW n \in Int, NEW d \in Int, d > 0
    PROVE  n = d * (n \div d) + (n % d)
BY SMTT(60)

LEMMA Division ==
    ASSUME NEW n \in Int, NEW d \in Int, d > 0
    PROVE  /\ n \div d \in Int /\ n % d \in Int
           /\ n = d * (n \div d) + (n % d)
           /\ 0 <= n % d /\ n % d < d
<1>1. n = d * (n \div d) + (n % d)
  BY PositiveDivision
<1>2. n \div d \in Int
  OBVIOUS
<1>3. n % d \in Int /\ 0 <= n % d /\ n % d < d
  OBVIOUS
<1> QED
  BY <1>1, <1>2, <1>3

\* A rounded quotient is within half a unit of the exact one.
LEMMA RoundedWithinHalf ==
    ASSUME NEW n \in Int, NEW d \in Nat \ {0}
    PROVE  /\ HalfEven(n, d) \in Int
           /\ 2 * (d * HalfEven(n, d)) <= 2 * n + d
           /\ 2 * n <= 2 * (d * HalfEven(n, d)) + d
<1> DEFINE q == n \div d
           r == n % d
<1>1. /\ q \in Int /\ r \in Int /\ d \in Int
      /\ n = d * q + r
      /\ 0 <= r /\ r < d
  BY Division
<1>2. HalfEven(n, d) = IF 2 * r > d \/ (2 * r = d /\ q % 2 = 1) THEN q + 1 ELSE q
  BY DEF HalfEven
<1> HIDE DEF q, r
<1>3. \A a, b \in Int : a * (b + 1) = a * b + a /\ a * b \in Int
  OBVIOUS
<1>4. d * (q + 1) = d * q + d /\ d * q \in Int
  BY <1>1, <1>3
<1>5. PICK dq \in Int : dq = d * q
  BY <1>4
<1>6. CASE HalfEven(n, d) = q + 1
  <2>1. 2 * r >= d
    BY <1>1, <1>2, <1>6
  <2>2. d * HalfEven(n, d) = dq + d /\ n = dq + r
    BY <1>1, <1>4, <1>5, <1>6
  <2> QED
    BY <1>1, <1>6, <2>1, <2>2
<1>7. CASE HalfEven(n, d) = q /\ 2 * r <= d
  <2>1. d * HalfEven(n, d) = dq /\ n = dq + r
    BY <1>1, <1>5, <1>7
  <2> QED
    BY <1>1, <1>7, <2>1
<1> QED
  BY <1>1, <1>2, <1>6, <1>7

LEMMA ProductOrder ==
    ASSUME NEW d \in Nat \ {0}, NEW a \in Int, NEW b \in Int
    PROVE  /\ d * a \in Int /\ d * b \in Int
           /\ a > b => d * a >= d * b + d
           /\ d * a > d * b => a > b
<1>1. \A x \in Nat \ {0}, y \in Nat : x * y >= 0
  OBVIOUS
<1>2. d * a \in Int /\ d * b \in Int
  OBVIOUS
<1>3. ASSUME NEW x \in Int, NEW y \in Int, x > y PROVE d * x >= d * y + d
  <2>1. d * (x - y - 1) >= 0
    <3>1. x - y - 1 \in Nat
      BY <1>3
    <3> QED
      BY <1>1, <3>1
  <2>2. d * (x - y - 1) = d * x - d * y - d
    OBVIOUS
  <2>3. d * x \in Int /\ d * y \in Int
    OBVIOUS
  <2> QED
    BY <2>1, <2>2, <2>3
<1>4. ASSUME d * a > d * b, ~ (a > b) PROVE FALSE
  <2>1. CASE a = b
    BY <1>2, <1>4, <2>1
  <2>2. CASE b > a
    <3>1. d * b >= d * a + d
      BY <1>3, <2>2
    <3> QED
      BY <1>2, <1>4, <3>1
  <2> QED
    BY <1>4, <2>1, <2>2
<1> QED
  BY <1>2, <1>3, <1>4

\* Rounding keeps the order, and a distance of more than a unit keeps it strict.
LEMMA RoundingKeepsOrder ==
    ASSUME NEW m \in Int, NEW n \in Int, NEW d \in Nat \ {0}
    PROVE  /\ m >= n => HalfEven(m, d) >= HalfEven(n, d)
           /\ m - n > d => HalfEven(m, d) > HalfEven(n, d)
<1> DEFINE a == HalfEven(m, d)
           b == HalfEven(n, d)
<1>1. /\ a \in Int /\ b \in Int
      /\ 2 * (d * a) <= 2 * m + d /\ 2 * m <= 2 * (d * a) + d
      /\ 2 * (d * b) <= 2 * n + d /\ 2 * n <= 2 * (d * b) + d
  BY RoundedWithinHalf
<1>2. m = n => a = b
  OBVIOUS
<1> HIDE DEF a, b
<1>3. d * a \in Int /\ d * b \in Int
  BY <1>1, ProductOrder
<1>4. ASSUME m >= n, ~ (a >= b) PROVE FALSE
  <2>1. d * b >= d * a + d
    BY <1>1, <1>4, ProductOrder
  <2>2. m = n
    BY <1>1, <1>3, <1>4, <2>1
  <2> QED
    BY <1>1, <1>2, <1>4, <2>2
<1>5. ASSUME m - n > d PROVE a > b
  <2>1. d * a > d * b
    BY <1>1, <1>3, <1>5
  <2> QED
    BY <1>1, <2>1, ProductOrder
<1>6. (m >= n => a >= b) /\ (m - n > d => a > b)
  BY <1>1, <1>4, <1>5
<1> QED
  BY <1>6 DEF a, b

-----------------------------------------------------------------------------
\* Positions in a strict total order: R is a relation on the finite set D.

StrictOrder(R, D) ==
    /\ \A j \in D : <<j, j>> \notin R
    /\ \A i, j, k \in D : <<i, j>> \in R /\ <<j, k>> \in R => <<i, k>> \in R
    /\ \A j, k \in D : j # k => <<j, k>> \in R \/ <<k, j>> \in R

Below(R, D, k) == {j \in D : <<j, k>> \in R}

\* What comes earlier has fewer elements below it.
LEMMA BelowGrows ==
    ASSUME NEW D, IsFiniteSet(D), NEW R, StrictOrder(R, D)
    PROVE  \A k \in D : /\ Cardinality(Below(R, D, k)) \in Nat
                        /\ Cardinality(Below(R, D, k)) < Cardinality(D)
                        /\ \A j \in D : <<j, k>> \in R =>
                              Cardinality(Below(R, D, j)) < Cardinality(Below(R, D, k))
<1> TAKE k \in D
<1>1. \A j \in D : IsFiniteSet(Below(R, D, j)) /\ Cardinality(Below(R, D, j)) \in Nat
  <2> TAKE j \in D
  <2>1. Below(R, D, j) \subseteq D
    BY DEF Below
  <2> QED
    BY <2>1, FS_Subset, FS_CardinalityType
<1>2. ASSUME NEW j \in D, NEW T, IsFiniteSet(T), Below(R, D, j) \subseteq T, j \in T
      PROVE  Cardinality(Below(R, D, j)) < Cardinality(T)
  <2>1. j \notin Below(R, D, j)
    BY DEF Below, StrictOrder
  <2>2. Cardinality(Below(R, D, j)) <= Cardinality(T) /\ Cardinality(T) \in Nat
    BY <1>2, FS_Subset, FS_CardinalityType
  <2>3. Cardinality(Below(R, D, j)) # Cardinality(T)
    BY <1>2, <2>1, FS_Subset
  <2> QED
    BY <1>1, <2>2, <2>3
<1>3. Cardinality(Below(R, D, k)) < Cardinality(D)
  BY <1>2 DEF Below
<1>4. ASSUME NEW j \in D, <<j, k>> \in R
      PROVE  Cardinality(Below(R, D, j)) < Cardinality(Below(R, D, k))
  <2>1. Below(R, D, j) \subseteq Below(R, D, k) /\ j \in Below(R, D, k)
    BY <1>4 DEF Below, StrictOrder
  <2> QED
    BY <1>1, <1>2, <2>1
<1> QED
  BY <1>1, <1>3, <1>4

\* Every position is taken, by one element each.
LEMMA PositionsAreTaken ==
    ASSUME NEW D, IsFiniteSet(D), NEW R, StrictOrder(R, D),
           NEW i \in 1 .. Cardinality(D)
    PROVE  \E k \in D : i = 1 + Cardinality(Below(R, D, k))
<1> DEFINE n == Cardinality(D)
           f == [k \in D |-> 1 + Cardinality(Below(R, D, k))]
<1>1. n \in Nat
  BY FS_CardinalityType
<1>2. f \in [D -> 1 .. n]
  <2> SUFFICES ASSUME NEW k \in D PROVE 1 + Cardinality(Below(R, D, k)) \in 1 .. n
    OBVIOUS
  <2>1. Cardinality(Below(R, D, k)) \in Nat /\ Cardinality(Below(R, D, k)) < n
    BY BelowGrows
  <2> QED
    BY <1>1, <2>1
<1>3. ASSUME NEW j \in D, NEW k \in D, f[j] = f[k], j # k PROVE FALSE
  <2>1. <<j, k>> \in R \/ <<k, j>> \in R
    BY <1>3 DEF StrictOrder
  <2>2. /\ Cardinality(Below(R, D, j)) \in Nat /\ Cardinality(Below(R, D, k)) \in Nat
        /\ Cardinality(Below(R, D, j)) # Cardinality(Below(R, D, k))
    BY <2>1, BelowGrows
  <2> QED
    BY <1>3, <2>2
<1>4. f \in Injection(D, 1 .. n)
  BY <1>2, <1>3 DEF Injection, IsInjective
<1>5. IsFiniteSet(1 .. n) /\ Cardinality(1 .. n) = n
  BY <1>1, FS_Interval
<1> HIDE DEF f
<1>6. f \in Surjection(D, 1 .. n)
  BY <1>4, <1>5, FS_Injection
<1>7. PICK k \in D : f[k] = i
  BY <1>6 DEF Surjection
<1> QED
  BY <1>7 DEF f

\* A finite set of numbers has a greatest one.
LEMMA GreatestExists ==
    ASSUME NEW S, IsFiniteSet(S), S \subseteq Nat, S # {}
    PROVE  \E n \in S : \A o \in S : n >= o
<1> DEFINE Bad == {T \in SUBSET S : T # {} /\ ~ \E n \in T : \A o \in T : n >= o}
<1> SUFFICES ASSUME Bad # {} PROVE FALSE
  OBVIOUS
<1>1. PICK T \in Bad : \A x \in T : T \ {x} \notin Bad
  BY MinimalSubset
<1>2. PICK x \in T : TRUE
  OBVIOUS
<1>3. x \in Nat /\ T \subseteq Nat
  OBVIOUS
<1>4. CASE T = {x}
  BY <1>3, <1>4
<1>5. CASE T # {x}
  <2>1. PICK n \in T \ {x} : \A o \in T \ {x} : n >= o
    <3>1. T \ {x} # {} /\ T \ {x} \in SUBSET S
      BY <1>2, <1>5
    <3>2. T \ {x} \notin Bad
      BY <1>1, <1>2
    <3> QED
      BY <3>1, <3>2
  <2>2. CASE n >= x
    BY <2>1, <2>2
  <2>3. CASE x > n
    BY <1>3, <2>1, <2>3
  <2> QED
    BY <1>3, <2>1, <2>2, <2>3
<1> QED
  BY <1>4, <1>5

-----------------------------------------------------------------------------
\* The rows of a catalog and what they score.

\* A catalog has finitely many rows of numbers.
LEMMA CatalogRows ==
    ASSUME NEW C \in Catalog
    PROVE  /\ DOMAIN C \subseteq RowId /\ DOMAIN C \subseteq Nat /\ IsFiniteSet(DOMAIN C)
           /\ \A k \in DOMAIN C : /\ C[k] \in Values /\ C[k].score \in Nat /\ C[k].cost \in Nat
                                  /\ ModelOf[k] \in Nat
<1>1. PICK K \in SUBSET RowId : C \in [K -> Values]
  BY DEF Catalog
<1>2. DOMAIN C = K /\ \A k \in K : C[k] \in Values
  BY <1>1
<1>3. IsFiniteSet(K)
  BY FS_Subset
<1>4. \A k \in K : ModelOf[k] \in Nat
  BY <1>1
<1>5. \A v \in Values : v.score \in Nat /\ v.cost \in Nat
  BY DEF Values
<1> QED
  BY <1>2, <1>3, <1>4, <1>5

\* Top is positive and no value exceeds it.
LEMMA TopBounds ==
    ASSUME NEW S, IsFiniteSet(S), S \subseteq Nat, S # {}
    PROVE  Top(S) \in Nat \ {0} /\ \A o \in S : Top(S) >= o
<1> DEFINE m == CHOOSE n \in S : \A o \in S : n >= o
<1>1. m \in S /\ \A o \in S : m >= o
  BY GreatestExists
<1>2. Top(S) = IF m > 0 THEN m ELSE 1
  BY DEF Top
<1> HIDE DEF m
<1> QED
  BY <1>1, <1>2

\* The values by which scores and costs are normalised.
LEMMA TopsOfCatalog ==
    ASSUME NEW C \in Catalog, DOMAIN C # {}
    PROVE  /\ TopScore(C) \in Nat \ {0} /\ TopCost(C) \in Nat \ {0}
           /\ \A k \in DOMAIN C : TopCost(C) >= C[k].cost
<1> DEFINE scores == {C[k].score : k \in DOMAIN C}
           costs == {C[k].cost : k \in DOMAIN C}
<1>1. IsFiniteSet(DOMAIN C)
  BY CatalogRows
<1>2. scores \subseteq Nat /\ costs \subseteq Nat /\ scores # {} /\ costs # {}
  <2>1. \A k \in DOMAIN C : C[k].score \in Nat /\ C[k].cost \in Nat
    BY CatalogRows
  <2>2. scores \subseteq Nat /\ costs \subseteq Nat
    BY <2>1
  <2>3. PICK k \in DOMAIN C : TRUE
    OBVIOUS
  <2>4. C[k].score \in scores /\ C[k].cost \in costs
    OBVIOUS
  <2> HIDE DEF scores, costs
  <2> QED
    BY <2>2, <2>4
<1>3. IsFiniteSet(scores) /\ IsFiniteSet(costs)
  <2>1. [k \in DOMAIN C |-> C[k].score] \in Surjection(DOMAIN C, scores)
    BY DEF Surjection
  <2>2. [k \in DOMAIN C |-> C[k].cost] \in Surjection(DOMAIN C, costs)
    BY DEF Surjection
  <2> HIDE DEF scores, costs
  <2> QED
    BY <1>1, <2>1, <2>2, FS_Surjection
<1>4. \A k \in DOMAIN C : C[k].cost \in costs
  OBVIOUS
<1>5. TopScore(C) = Top(scores) /\ TopCost(C) = Top(costs)
  BY DEF TopScore, TopCost
<1> HIDE DEF scores, costs
<1> QED
  BY <1>2, <1>3, <1>4, <1>5, TopBounds

LEMMA Products ==
    /\ \A a, b \in Int : a * b \in Int
    /\ \A a, b \in Nat \ {0} : a * b \in Nat \ {0}
    /\ \A a, b \in Nat : a * b \in Nat
OBVIOUS

\* What a row is worth, exactly and rounded.
LEMMA Worth ==
    ASSUME NEW C \in Catalog, NEW k \in DOMAIN C, NEW w \in Weight
    PROVE  /\ Exact(C, k, w) \in Int /\ ExactUnit(C) \in Nat \ {0}
           /\ Exact(C, k, w) * Quantum \in Int
           /\ RankScore(C, k, w) = HalfEven(Exact(C, k, w) * Quantum, ExactUnit(C))
           /\ RankScore(C, k, w) \in Int
<1>1. /\ TopScore(C) \in Nat \ {0} /\ TopCost(C) \in Nat \ {0}
      /\ C[k].score \in Nat /\ C[k].cost \in Nat
  BY TopsOfCatalog, CatalogRows
<1>2. w \in Int /\ Unit - w \in Int /\ TopCost(C) - C[k].cost \in Int /\ Quantum \in Int
  BY <1>1
<1>3. w * C[k].score * TopCost(C) \in Int
  BY <1>1, <1>2, Products
<1>4. (Unit - w) * (TopCost(C) - C[k].cost) * TopScore(C) \in Int
  BY <1>1, <1>2, Products
<1>5. Exact(C, k, w) \in Int
  BY <1>3, <1>4 DEF Exact
<1>6. ExactUnit(C) \in Nat \ {0}
  BY <1>1, Products DEF ExactUnit
<1>7. Exact(C, k, w) * Quantum \in Int
  BY <1>2, <1>5, Products
<1>8. RankScore(C, k, w) = HalfEven(Exact(C, k, w) * Quantum, ExactUnit(C))
  BY DEF RankScore, Exact, ExactUnit
<1> QED
  BY <1>5, <1>6, <1>7, <1>8, RoundedWithinHalf

\* The scores follow the exact worth.
LEMMA ScoresFollowWorth ==
    ASSUME NEW C \in Catalog, NEW j \in DOMAIN C, NEW k \in DOMAIN C, NEW w \in Weight
    PROVE  /\ (Exact(C, j, w) - Exact(C, k, w)) * Quantum > ExactUnit(C)
                 => RankScore(C, j, w) > RankScore(C, k, w)
           /\ Exact(C, j, w) >= Exact(C, k, w) => RankScore(C, j, w) >= RankScore(C, k, w)
<1> DEFINE m == Exact(C, j, w)
           n == Exact(C, k, w)
<1>1. m \in Int /\ n \in Int /\ m * Quantum \in Int /\ n * Quantum \in Int
  BY Worth
<1>2. /\ ExactUnit(C) \in Nat \ {0}
      /\ RankScore(C, j, w) = HalfEven(m * Quantum, ExactUnit(C))
      /\ RankScore(C, k, w) = HalfEven(n * Quantum, ExactUnit(C))
  BY Worth
<1> HIDE DEF m, n
<1>3. (m - n) * Quantum = m * Quantum - n * Quantum
  BY <1>1
<1>4. m >= n => m * Quantum >= n * Quantum
  <2>1. CASE m = n
    BY <1>1, <2>1
  <2>2. CASE m > n
    <3>1. Quantum * m >= Quantum * n + Quantum
      BY <1>1, <2>2, ProductOrder
    <3>2. Quantum * m = m * Quantum /\ Quantum * n = n * Quantum
      BY <1>1
    <3> QED
      BY <1>1, <3>1, <3>2
  <2> QED
    BY <1>1, <2>1, <2>2
<1>5. (m - n) * Quantum > ExactUnit(C) => RankScore(C, j, w) > RankScore(C, k, w)
  BY <1>1, <1>2, <1>3, RoundingKeepsOrder
<1>6. m >= n => RankScore(C, j, w) >= RankScore(C, k, w)
  BY <1>1, <1>2, <1>4, RoundingKeepsOrder
<1> QED
  BY <1>5, <1>6 DEF m, n

\* A row that scores no less and costs less is worth no less.
LEMMA CheaperIsWorthMore ==
    ASSUME NEW C \in Catalog, NEW j \in DOMAIN C, NEW k \in DOMAIN C, NEW w \in Weight,
           C[j].score >= C[k].score, C[j].cost < C[k].cost
    PROVE  Exact(C, j, w) >= Exact(C, k, w)
<1>1. /\ TopScore(C) \in Nat \ {0} /\ TopCost(C) \in Nat \ {0}
      /\ TopCost(C) >= C[j].cost /\ TopCost(C) >= C[k].cost
  BY TopsOfCatalog
<1>2. C[j].score \in Nat /\ C[j].cost \in Nat /\ C[k].score \in Nat /\ C[k].cost \in Nat
  BY CatalogRows
<1>3. \A a, b, c \in Nat : a >= b => c * a >= c * b /\ a * c >= b * c
  OBVIOUS
<1>4. w \in Nat /\ Unit - w \in Nat
  OBVIOUS
<1>5. /\ w * C[j].score \in Nat /\ w * C[k].score \in Nat
      /\ w * C[j].score >= w * C[k].score
  BY <1>2, <1>3, <1>4, Products
<1>6. /\ w * C[j].score * TopCost(C) \in Nat /\ w * C[k].score * TopCost(C) \in Nat
      /\ w * C[j].score * TopCost(C) >= w * C[k].score * TopCost(C)
  BY <1>1, <1>3, <1>5, Products
<1>7. /\ TopCost(C) - C[j].cost \in Nat /\ TopCost(C) - C[k].cost \in Nat
      /\ TopCost(C) - C[j].cost >= TopCost(C) - C[k].cost
  BY <1>1, <1>2
<1>8. /\ (Unit - w) * (TopCost(C) - C[j].cost) \in Nat
      /\ (Unit - w) * (TopCost(C) - C[k].cost) \in Nat
      /\ (Unit - w) * (TopCost(C) - C[j].cost) >= (Unit - w) * (TopCost(C) - C[k].cost)
  BY <1>3, <1>4, <1>7, Products
<1>9. /\ (Unit - w) * (TopCost(C) - C[j].cost) * TopScore(C) \in Nat
      /\ (Unit - w) * (TopCost(C) - C[k].cost) * TopScore(C) \in Nat
      /\ (Unit - w) * (TopCost(C) - C[j].cost) * TopScore(C)
            >= (Unit - w) * (TopCost(C) - C[k].cost) * TopScore(C)
  BY <1>1, <1>3, <1>8, Products
<1> QED
  BY <1>6, <1>9 DEF Exact

-----------------------------------------------------------------------------
\* The ranking.

Earlier(C, w) == {p \in (DOMAIN C) \X (DOMAIN C) : Before(C, w, p[1], p[2])}

\* The sort key orders the rows: no two of them tie.
LEMMA RowsAreOrdered ==
    ASSUME NEW C \in Catalog, NEW w \in Weight
    PROVE  StrictOrder(Earlier(C, w), DOMAIN C)
<1>1. \A j, k \in DOMAIN C : <<j, k>> \in Earlier(C, w) <=> Before(C, w, j, k)
  BY DEF Earlier
<1>2. \A k \in DOMAIN C : /\ RankScore(C, k, w) \in Int /\ C[k].cost \in Int
                          /\ ModelOf[k] \in Int /\ k \in Int
  BY Worth, CatalogRows
<1>3. \A j \in DOMAIN C : ~ Before(C, w, j, j)
  BY <1>2 DEF Before
<1>4. \A i, j, k \in DOMAIN C : Before(C, w, i, j) /\ Before(C, w, j, k) => Before(C, w, i, k)
  BY <1>2 DEF Before
<1>5. \A j, k \in DOMAIN C : j # k => Before(C, w, j, k) \/ Before(C, w, k, j)
  BY <1>2 DEF Before
<1> QED
  BY <1>1, <1>3, <1>4, <1>5 DEF StrictOrder

\* The ranking lists every row once, in the order of Before.
LEMMA RankingLists ==
    ASSUME NEW C \in Catalog, NEW w \in Weight
    PROVE  LET n == Cardinality(DOMAIN C)
               order == Ranking(C, w)
           IN  /\ n \in Nat /\ order \in Seq(RowId) /\ Len(order) = n
               /\ \A i \in 1 .. n : order[i] \in DOMAIN C /\ Rank(C, w, order[i]) = i
               /\ \A k \in DOMAIN C : Rank(C, w, k) \in 1 .. n /\ order[Rank(C, w, k)] = k
               /\ \A j, k \in DOMAIN C :
                     Before(C, w, j, k) => Rank(C, w, j) < Rank(C, w, k)
<1> DEFINE D == DOMAIN C
           n == Cardinality(D)
           R == Earlier(C, w)
           order == Ranking(C, w)
<1>1. D \subseteq RowId /\ IsFiniteSet(D) /\ n \in Nat
  BY CatalogRows, FS_CardinalityType
<1>2. StrictOrder(R, D)
  BY RowsAreOrdered
<1>3. \A k \in D : Rank(C, w, k) = 1 + Cardinality(Below(R, D, k))
  <2> TAKE k \in D
  <2>1. Below(R, D, k) = {j \in D : Before(C, w, j, k)}
    BY DEF Below, Earlier
  <2> QED
    BY <2>1 DEF Rank
<1>4. \A j, k \in D : Before(C, w, j, k) => <<j, k>> \in R
  BY DEF Earlier
<1>5. order = [i \in 1 .. n |-> CHOOSE k \in D : Rank(C, w, k) = i]
  BY DEF Ranking
<1> HIDE DEF D, n, R, order
<1>6. \A k \in D : /\ Cardinality(Below(R, D, k)) \in Nat /\ Cardinality(Below(R, D, k)) < n
                   /\ \A j \in D : <<j, k>> \in R =>
                         Cardinality(Below(R, D, j)) < Cardinality(Below(R, D, k))
  BY <1>1, <1>2, BelowGrows DEF n
<1>7. \A k \in D : Rank(C, w, k) \in 1 .. n
  <2> TAKE k \in D
  <2>1. Rank(C, w, k) = 1 + Cardinality(Below(R, D, k))
    BY <1>3
  <2>2. Cardinality(Below(R, D, k)) \in Nat /\ Cardinality(Below(R, D, k)) < n
    BY <1>6
  <2> HIDE <1>6, <1>3
  <2> QED
    BY <1>1, <2>1, <2>2
<1>8. ASSUME NEW j \in D, NEW k \in D, Before(C, w, j, k)
      PROVE  Rank(C, w, j) < Rank(C, w, k)
  <2>1. Cardinality(Below(R, D, j)) < Cardinality(Below(R, D, k))
    BY <1>4, <1>6, <1>8
  <2>2. Cardinality(Below(R, D, j)) \in Nat /\ Cardinality(Below(R, D, k)) \in Nat
    BY <1>6
  <2>3. /\ Rank(C, w, j) = 1 + Cardinality(Below(R, D, j))
        /\ Rank(C, w, k) = 1 + Cardinality(Below(R, D, k))
    BY <1>3
  <2> HIDE <1>6, <1>3
  <2> QED
    BY <2>1, <2>2, <2>3
<1>9. \A i \in 1 .. n : order[i] \in D /\ Rank(C, w, order[i]) = i
  <2> TAKE i \in 1 .. n
  <2>1. \E k \in D : Rank(C, w, k) = i
    <3>1. i \in 1 .. Cardinality(D)
      BY DEF n
    <3>2. PICK k \in D : i = 1 + Cardinality(Below(R, D, k))
      BY <1>1, <1>2, <3>1, PositionsAreTaken
    <3> QED
      BY <1>3, <3>2
  <2>2. order[i] = CHOOSE k \in D : Rank(C, w, k) = i
    BY <1>5
  <2> QED
    BY <2>1, <2>2
<1>10. ASSUME NEW j \in D, NEW k \in D, Rank(C, w, j) = Rank(C, w, k) PROVE j = k
  <2>1. ASSUME j # k PROVE <<j, k>> \in R \/ <<k, j>> \in R
    BY <1>2, <2>1 DEF StrictOrder
  <2>2. Cardinality(Below(R, D, j)) = Cardinality(Below(R, D, k))
    BY <1>3, <1>6, <1>10
  <2> QED
    BY <1>6, <2>1, <2>2
<1>11. \A k \in D : order[Rank(C, w, k)] = k
  BY <1>7, <1>9, <1>10
<1>12. order \in Seq(RowId) /\ Len(order) = n
  <2>1. \A i \in 1 .. n : order[i] \in RowId
    BY <1>1, <1>9
  <2>2. order \in [1 .. n -> RowId]
    BY <1>5, <2>1
  <2> QED
    BY <1>1, <2>2
<1> QED
  BY <1>1, <1>7, <1>8, <1>9, <1>11, <1>12 DEF D, n, order

-----------------------------------------------------------------------------
\* The shortlist.

\* The rows offered are those of the first ranks, each at its rank.
LEMMA ShortlistIsTop ==
    ASSUME NEW C \in Catalog, NEW w \in Weight, NEW s, s = Shortlist(Ranking(C, w))
    PROVE  /\ DOMAIN s = 1 .. Len(s) /\ Len(s) \in Nat
           /\ \A i \in DOMAIN s : s[i] \in DOMAIN C /\ Rank(C, w, s[i]) = i
           /\ \A k \in DOMAIN C : Rank(C, w, k) <= Len(s) =>
                 Rank(C, w, k) \in DOMAIN s /\ s[Rank(C, w, k)] = k
<1> DEFINE n == Cardinality(DOMAIN C)
           order == Ranking(C, w)
           m == IF n < ShortlistSize THEN n ELSE ShortlistSize
<1>1. /\ n \in Nat /\ order \in Seq(RowId) /\ Len(order) = n
      /\ \A i \in 1 .. n : order[i] \in DOMAIN C /\ Rank(C, w, order[i]) = i
      /\ \A k \in DOMAIN C : Rank(C, w, k) \in 1 .. n /\ order[Rank(C, w, k)] = k
  BY RankingLists
<1>2. s = SubSeq(order, 1, m)
  BY <1>1 DEF Shortlist
<1>3. m \in Nat /\ m <= n
  BY <1>1
<1> HIDE DEF n, order, m
<1>4. \A i \in 1 .. m : i \in 1 .. n /\ order[i] \in RowId
  BY <1>1, <1>3, ElementOfSeq
<1>5. /\ s \in Seq(RowId) /\ Len(s) = m
      /\ \A i \in 1 .. m : s[i] = order[i]
  <2>1. /\ SubSeq(order, 1, m) \in Seq(RowId)
        /\ Len(SubSeq(order, 1, m)) = IF 1 <= m THEN m - 1 + 1 ELSE 0
        /\ \A i \in 1 .. m - 1 + 1 : SubSeq(order, 1, m)[i] = order[1 + i - 1]
    BY <1>3, <1>4, SubSeqProperties
  <2>2. (IF 1 <= m THEN m - 1 + 1 ELSE 0) = m /\ m - 1 + 1 = m
    BY <1>3
  <2>3. \A i \in 1 .. m : 1 + i - 1 = i
    BY <1>3
  <2> QED
    BY <1>2, <2>1, <2>2, <2>3
<1>6. DOMAIN s = 1 .. m
  BY <1>5, LenProperties
<1>7. \A i \in DOMAIN s : s[i] \in DOMAIN C /\ Rank(C, w, s[i]) = i
  BY <1>1, <1>4, <1>5, <1>6
<1>8. \A k \in DOMAIN C : Rank(C, w, k) <= m =>
         Rank(C, w, k) \in DOMAIN s /\ s[Rank(C, w, k)] = k
  BY <1>1, <1>3, <1>5, <1>6
<1> QED
  BY <1>3, <1>5, <1>6, <1>7, <1>8

\* What is stored is the shortlist of a catalog that was ranked, at the weights asked for.
Ordered ==
    offer.status = "stored" =>
        /\ ranked \in Catalog /\ offer.weight \in Weight
        /\ offer.shortlist = Shortlist(Ranking(ranked, offer.weight))

\* A row that comes before an offered one is offered, and before it.
LEMMA OfferedByRank ==
    ASSUME Ordered, offer.status = "stored"
    PROVE  /\ Len(offer.shortlist) = Cardinality(Offered)
           /\ Offered \subseteq DOMAIN ranked
           /\ \A j \in DOMAIN ranked, k \in Offered :
                 Before(ranked, offer.weight, j, k) => Precedes(j, k)
<1> DEFINE C == ranked
           w == offer.weight
           s == offer.shortlist
<1>1. C \in Catalog /\ w \in Weight /\ s = Shortlist(Ranking(C, w))
  BY DEF Ordered
<1>2. /\ DOMAIN s = 1 .. Len(s) /\ Len(s) \in Nat
      /\ \A i \in DOMAIN s : s[i] \in DOMAIN C /\ Rank(C, w, s[i]) = i
      /\ \A k \in DOMAIN C : Rank(C, w, k) <= Len(s) =>
            Rank(C, w, k) \in DOMAIN s /\ s[Rank(C, w, k)] = k
  <2> HIDE DEF C, w, s
  <2> QED
    BY <1>1, ShortlistIsTop
<1>3. /\ \A k \in DOMAIN C : Rank(C, w, k) \in Nat /\ Rank(C, w, k) >= 1
      /\ \A j, k \in DOMAIN C : Before(C, w, j, k) => Rank(C, w, j) < Rank(C, w, k)
  <2> DEFINE n == Cardinality(DOMAIN C)
  <2>1. /\ n \in Nat
        /\ \A k \in DOMAIN C : Rank(C, w, k) \in 1 .. n
        /\ \A j, k \in DOMAIN C : Before(C, w, j, k) => Rank(C, w, j) < Rank(C, w, k)
    BY <1>1, RankingLists
  <2> HIDE DEF n
  <2> QED
    BY <2>1
<1>4. Offered = {s[i] : i \in DOMAIN s}
  BY DEF Offered
<1>5. \A k : Position(k) = CHOOSE i \in DOMAIN s : s[i] = k
  BY DEF Position
<1>6. \A j, k : Precedes(j, k) <=> j \in Offered /\ (k \in Offered => Position(j) < Position(k))
  BY DEF Precedes
<1> HIDE DEF C, w, s
<1>7. \A k \in Offered : k \in DOMAIN C /\ Rank(C, w, k) \in DOMAIN s /\ Position(k) = Rank(C, w, k)
  <2> TAKE k \in Offered
  <2>1. PICK i \in DOMAIN s : s[i] = k
    BY <1>4
  <2>2. \A h \in DOMAIN s : s[h] = k => h = Rank(C, w, k)
    BY <1>2
  <2>3. Position(k) \in DOMAIN s /\ s[Position(k)] = k
    BY <1>5, <2>1
  <2> QED
    BY <1>2, <2>1, <2>2, <2>3
<1>8. Len(s) = Cardinality(Offered)
  <2> DEFINE f == [i \in 1 .. Len(s) |-> s[i]]
  <2>1. f \in Surjection(1 .. Len(s), Offered)
    BY <1>2, <1>4 DEF Surjection
  <2>2. \A h, i \in 1 .. Len(s) : s[h] = s[i] => h = i
    BY <1>2
  <2>3. f \in Injection(1 .. Len(s), Offered)
    <3>1. f \in [1 .. Len(s) -> Offered]
      BY <2>1 DEF Surjection
    <3>2. \A h, i \in 1 .. Len(s) : f[h] = f[i] => h = i
      BY <2>2
    <3>3. DOMAIN f = 1 .. Len(s)
      OBVIOUS
    <3> HIDE DEF f
    <3>4. IsInjective(f)
      BY <3>2, <3>3 DEF IsInjective
    <3> QED
      BY <3>1, <3>4 DEF Injection
  <2>4. IsFiniteSet(1 .. Len(s)) /\ Cardinality(1 .. Len(s)) = Len(s)
    <3>1. PICK l \in Nat : l = Len(s)
      BY <1>2
    <3>2. IsFiniteSet(1 .. l) /\ Cardinality(1 .. l) = l
      BY FS_Interval
    <3> QED
      BY <3>1, <3>2
  <2> HIDE DEF f
  <2> QED
    BY <2>1, <2>3, <2>4, FS_Surjection
<1>9. ASSUME NEW j \in DOMAIN C, NEW k \in Offered, Before(C, w, j, k) PROVE Precedes(j, k)
  <2>1. /\ k \in DOMAIN C /\ Rank(C, w, k) \in 1 .. Len(s) /\ Position(k) = Rank(C, w, k)
        /\ Rank(C, w, j) < Rank(C, w, k)
    BY <1>2, <1>3, <1>7, <1>9
  <2>2. Rank(C, w, j) <= Len(s)
    <3>1. Rank(C, w, j) \in Nat /\ Rank(C, w, k) \in Nat /\ Rank(C, w, k) <= Len(s)
      BY <1>2, <1>3, <2>1
    <3> QED
      BY <1>2, <2>1, <3>1
  <2>3. Rank(C, w, j) \in DOMAIN s /\ s[Rank(C, w, j)] = j
    BY <1>2, <2>2
  <2>4. j \in Offered
    BY <1>4, <2>3
  <2>5. Position(j) = Rank(C, w, j)
    BY <1>7, <2>4
  <2> QED
    BY <1>6, <2>1, <2>4, <2>5
<1>10. Offered \subseteq DOMAIN C
  BY <1>7
<1> QED
  BY <1>8, <1>9, <1>10 DEF C, w, s

\* More than a quantum between two exact scores survives the rounding.
LEMMA OrderedOffersFollowWeights == Ordered => OrderFollowsWeights
<1> SUFFICES ASSUME Ordered, offer.status = "stored" PROVE OrderFollowsWeights
  BY DEF OrderFollowsWeights
<1>1. ranked \in Catalog /\ offer.weight \in Weight
  BY DEF Ordered
<1>2. ASSUME NEW j \in DOMAIN ranked, NEW k \in Offered,
             (Exact(ranked, j, offer.weight) - Exact(ranked, k, offer.weight)) * Quantum
                 > ExactUnit(ranked)
      PROVE  Precedes(j, k)
  <2>1. k \in DOMAIN ranked
    BY OfferedByRank
  <2>2. RankScore(ranked, j, offer.weight) > RankScore(ranked, k, offer.weight)
    BY <1>1, <1>2, <2>1, ScoresFollowWorth
  <2> QED
    BY <2>2, OfferedByRank DEF Before
<1> QED
  BY <1>2, OfferedByRank DEF OrderFollowsWeights

\* Equal scores after rounding are decided by the cost.
LEMMA OrderedOffersPutCheaperFirst == Ordered => CheaperAndNoWorseWins
<1> SUFFICES ASSUME Ordered, offer.status = "stored" PROVE CheaperAndNoWorseWins
  BY DEF CheaperAndNoWorseWins
<1>1. ranked \in Catalog /\ offer.weight \in Weight
  BY DEF Ordered
<1>2. ASSUME NEW j \in DOMAIN ranked, NEW k \in Offered,
             ranked[j].score >= ranked[k].score, ranked[j].cost < ranked[k].cost
      PROVE  Precedes(j, k)
  <2>1. k \in DOMAIN ranked
    BY OfferedByRank
  <2>2. RankScore(ranked, j, offer.weight) >= RankScore(ranked, k, offer.weight)
    BY <1>1, <1>2, <2>1, CheaperIsWorthMore, ScoresFollowWorth
  <2>3. /\ RankScore(ranked, j, offer.weight) \in Int
        /\ RankScore(ranked, k, offer.weight) \in Int
    BY <1>1, <2>1, Worth
  <2>4. Before(ranked, offer.weight, j, k)
    BY <1>2, <2>2, <2>3 DEF Before
  <2> QED
    BY <2>4, OfferedByRank
<1> QED
  BY <1>2 DEF CheaperAndNoWorseWins

-----------------------------------------------------------------------------
\* The baseline.

\* A catalog that is ranked has a row, and all of one group.
LEMMA ComparableRows ==
    ASSUME NEW C \in Catalog, Comparable(C)
    PROVE  DOMAIN C # {} /\ \A j, k \in DOMAIN C : GroupOf[j] = GroupOf[k]
<1> DEFINE groups == {GroupOf[k] : k \in DOMAIN C}
<1>1. [k \in DOMAIN C |-> GroupOf[k]] \in Surjection(DOMAIN C, groups)
  BY DEF Surjection
<1>2. \A k \in DOMAIN C : GroupOf[k] \in groups
  OBVIOUS
<1>3. Cardinality(groups) = 1
  BY DEF Comparable
<1>4. groups # {} => DOMAIN C # {}
  OBVIOUS
<1> HIDE DEF groups
<1>5. IsFiniteSet(groups)
  BY <1>1, CatalogRows, FS_Surjection
<1>6. PICK g : groups = {g}
  BY <1>3, <1>5, FS_Singleton
<1> QED
  BY <1>2, <1>4, <1>6

\* The baseline is a ranked row: the configured model's, or the dearest.
LEMMA BaselineOfRows ==
    ASSUME NEW C \in Catalog, NEW w \in Weight, Comparable(C)
    PROVE  LET order == Ranking(C, w)
               b == Baseline(C, order)
           IN  /\ order[1] \in DOMAIN C
               /\ b.key \in DOMAIN C /\ b.selection \in {"configured", "fallback"}
               /\ \/ ModelOf[b.key] = BaselineFor[TaskRanked(order)]
                  \/ /\ \A k \in DOMAIN C : C[k].cost <= C[b.key].cost
                     /\ \A k \in DOMAIN C : ModelOf[k] # BaselineFor[TaskRanked(order)]
<1> DEFINE D == DOMAIN C
           order == Ranking(C, w)
           b == Baseline(C, order)
           named == {k \in D : ModelOf[k] = BaselineFor[TaskRanked(order)]}
           dearest == {k \in D : \A j \in D : C[j].cost <= C[k].cost}
           Lowest(K) == CHOOSE k \in K : \A j \in K : k <= j
<1>1. D # {} /\ D \subseteq Nat /\ IsFiniteSet(D)
  BY CatalogRows, ComparableRows
<1>2. order[1] \in D
  <2>1. Cardinality(D) \in Nat /\ Cardinality(D) # 0
    BY <1>1, FS_CardinalityType, FS_EmptySet
  <2>2. 1 \in 1 .. Cardinality(D)
    BY <2>1
  <2> QED
    BY <2>2, RankingLists
<1>3. dearest # {}
  <2> DEFINE costs == {C[k].cost : k \in D}
  <2>1. [k \in D |-> C[k].cost] \in Surjection(D, costs)
    BY DEF Surjection
  <2>2. costs # {} /\ costs \subseteq Nat
    BY <1>1, CatalogRows
  <2>3. \A k \in D : C[k].cost \in costs
    OBVIOUS
  <2>4. \A n \in costs : \E k \in D : n = C[k].cost
    OBVIOUS
  <2> HIDE DEF costs
  <2>5. PICK n \in costs : \A o \in costs : n >= o
    BY <1>1, <2>1, <2>2, FS_Surjection, GreatestExists
  <2>6. PICK k \in D : n = C[k].cost
    BY <2>4
  <2>7. \A j \in D : C[j].cost <= C[k].cost
    BY <2>2, <2>3, <2>5, <2>6
  <2> QED
    BY <2>7
<1>4. ASSUME NEW K, K \subseteq D, K # {} PROVE Lowest(K) \in K
  <2>1. \E k \in K : \A j \in K : k <= j
    BY <1>1, <1>4, LeastNatural
  <2> QED
    BY <2>1
<1>5. b = IF named # {} THEN [key |-> Lowest(named), selection |-> "configured"]
                        ELSE [key |-> Lowest(dearest), selection |-> "fallback"]
  BY DEF Baseline
<1>6. CASE named # {}
  <2>1. Lowest(named) \in named
    BY <1>4, <1>6
  <2>2. b.key = Lowest(named) /\ b.selection = "configured"
    BY <1>5, <1>6
  <2> HIDE DEF Lowest, b
  <2>3. b.key \in D /\ ModelOf[b.key] = BaselineFor[TaskRanked(order)]
    BY <2>1, <2>2
  <2> QED
    BY <1>2, <2>2, <2>3 DEF b
<1>7. CASE named = {}
  <2>1. Lowest(dearest) \in dearest
    BY <1>3, <1>4
  <2>2. b.key = Lowest(dearest) /\ b.selection = "fallback"
    BY <1>5, <1>7
  <2>3. \A k \in D : ModelOf[k] # BaselineFor[TaskRanked(order)]
    BY <1>7
  <2> HIDE DEF Lowest, b
  <2>4. b.key \in D /\ \A k \in D : C[k].cost <= C[b.key].cost
    BY <2>1, <2>2
  <2> QED
    BY <1>2, <2>2, <2>3, <2>4 DEF b
<1> QED
  BY <1>6, <1>7

\* The rows of one (benchmark, metric) measure one task.
OneTaskPerGroup == \A j, k \in RowId : GroupOf[j] = GroupOf[k] => TaskOf[j] = TaskOf[k]

Chosen ==
    offer.status = "stored" =>
        /\ ranked \in Catalog /\ offer.weight \in Weight /\ Comparable(ranked)
        /\ LET b == Baseline(ranked, Ranking(ranked, offer.weight))
           IN  offer.baseline = b.key /\ offer.selection = b.selection

\* Where groups measure one task, the task of the first row is that of the baseline.
LEMMA ChosenBaselineIsFair ==
    ASSUME OneTaskPerGroup
    PROVE  Chosen => BaselineIsFair
<1> SUFFICES ASSUME Chosen, offer.status = "stored" PROVE BaselineIsFair
  BY DEF BaselineIsFair
<1> DEFINE C == ranked
           w == offer.weight
           order == Ranking(C, w)
           b == Baseline(C, order)
<1>1. C \in Catalog /\ w \in Weight /\ Comparable(C) /\ offer.baseline = b.key
  BY DEF Chosen
<1>2. /\ order[1] \in DOMAIN C
      /\ b.key \in DOMAIN C
      /\ \/ ModelOf[b.key] = BaselineFor[TaskRanked(order)]
         \/ /\ \A k \in DOMAIN C : C[k].cost <= C[b.key].cost
            /\ \A k \in DOMAIN C : ModelOf[k] # BaselineFor[TaskRanked(order)]
  BY <1>1, BaselineOfRows
<1>3. TaskOf[b.key] = TaskRanked(order)
  <2>1. GroupOf[b.key] = GroupOf[order[1]]
    BY <1>1, <1>2, ComparableRows
  <2>2. b.key \in RowId /\ order[1] \in RowId
    BY <1>1, <1>2, CatalogRows
  <2> HIDE DEF b, order
  <2>3. TaskOf[b.key] = TaskOf[order[1]]
    BY <2>1, <2>2 DEF OneTaskPerGroup
  <2> QED
    BY <2>3 DEF TaskRanked
<1> HIDE DEF b, order
<1> QED
  BY <1>1, <1>2, <1>3 DEF BaselineIsFair

-----------------------------------------------------------------------------
\* The requests.

RecommendInv == RecommendTypeOK /\ (request # Idle => request.weight \in Weight) /\ Ordered /\ Chosen

LEMMA EmptyCatalog == <<>> \in Catalog
<1>1. <<>> \in [{} -> Values]
  OBVIOUS
<1> QED
  BY <1>1 DEF Catalog

\* A part of a catalog is a catalog.
LEMMA LimitedCatalog ==
    ASSUME NEW C \in Catalog, NEW K, K \subseteq DOMAIN C
    PROVE  Limit(C, K) \in Catalog
<1>1. K \in SUBSET RowId
  BY CatalogRows
<1>2. Limit(C, K) \in [K -> Values]
  BY CatalogRows DEF Limit
<1> QED
  BY <1>1, <1>2 DEF Catalog

LEMMA RunnableCatalog ==
    ASSUME NEW C \in Catalog, NEW on
    PROVE  ById(C, on) \in Catalog
BY LimitedCatalog DEF ById

LEMMA NoOfferFields ==
    /\ NoOffer.status = "none" /\ NoOffer.shortlist = <<>>
    /\ Refused.status = "422" /\ Refused.shortlist = <<>>
BY DEF NoOffer, Refused

\* Requests: the first state.
LEMMA InitRecommend == RecommendInit => RecommendInv
<1> SUFFICES ASSUME RecommendInit PROVE RecommendInv
  OBVIOUS
<1>1. request.tasks = {} /\ request.weight = 0 /\ request.candidates = <<>>
  BY DEF RecommendInit, Idle
<1>2. offer.status = "none" /\ offer.shortlist = <<>>
  BY NoOfferFields DEF RecommendInit
<1>3. RecommendTypeOK
  BY <1>1, <1>2, EmptyCatalog DEF RecommendInit, RecommendTypeOK
<1> QED
  BY <1>2, <1>3 DEF RecommendInit, RecommendInv, Ordered, Chosen

\* A shortlist is not empty and within its size.
LEMMA OfferTypes ==
    ASSUME NEW C \in Catalog, NEW w \in Weight, Comparable(C)
    PROVE  LET s == Shortlist(Ranking(C, w))
           IN  /\ \A i \in DOMAIN s : s[i] \in RowId
               /\ Len(s) \in 1 .. ShortlistSize
<1> DEFINE n == Cardinality(DOMAIN C)
           order == Ranking(C, w)
           s == Shortlist(order)
<1>1. DOMAIN C \subseteq RowId /\ IsFiniteSet(DOMAIN C) /\ DOMAIN C # {}
  BY CatalogRows, ComparableRows
<1>2. n \in Nat /\ n # 0
  BY <1>1, FS_CardinalityType, FS_EmptySet
<1>3. order \in Seq(RowId) /\ Len(order) = n
  BY RankingLists
<1> DEFINE m == IF n < ShortlistSize THEN n ELSE ShortlistSize
<1>4. s = SubSeq(order, 1, m)
  BY <1>3 DEF Shortlist
<1> HIDE DEF n, order, s
<1>5. m \in 1 .. n /\ m \in 1 .. ShortlistSize
  BY <1>2
<1> HIDE DEF m
<1>6. s \in Seq(RowId) /\ Len(s) = m
  BY <1>2, <1>3, <1>4, <1>5
<1>7. \A i \in DOMAIN s : s[i] \in RowId
  BY <1>6, LenProperties
<1> QED
  BY <1>5, <1>6, <1>7 DEF order, s

\* What is stored is what was ranked.
LEMMA RankKeepsInv ==
    ASSUME RecommendInv, RankAndStore
    PROVE  RecommendInv'
<1> DEFINE C == ById(request.candidates, enabled)
           w == request.weight
           order == Ranking(C, w)
           b == Baseline(C, order)
<1>1. C \in Catalog /\ w \in Weight
  BY RunnableCatalog DEF RecommendInv, RecommendTypeOK, RankAndStore
<1>2. /\ request' = Idle /\ UNCHANGED <<results, enabled, edits>>
      /\ \/ /\ Comparable(C) /\ ranked' = C
            /\ offer' = [status |-> "stored", weight |-> w, shortlist |-> Shortlist(order),
                         baseline |-> b.key, selection |-> b.selection]
         \/ offer' = Refused /\ ranked' = <<>>
  BY DEF RankAndStore
<1> HIDE DEF C, w
<1>3. request'.tasks = {} /\ request'.weight = 0 /\ request'.candidates = <<>>
  BY <1>2 DEF Idle
<1>4. /\ results' \in Catalog /\ enabled' \subseteq Model /\ edits' \in 0 .. MaxEdits
      /\ request'.tasks \subseteq TaskType /\ request'.weight \in Weight \cup {0}
      /\ request'.candidates \in Catalog
      /\ request' = Idle'
  BY <1>2, <1>3, EmptyCatalog DEF RecommendInv, RecommendTypeOK, Idle
<1>5. CASE offer' = Refused /\ ranked' = <<>>
  <2>1. offer'.status = "422" /\ offer'.shortlist = <<>>
    BY <1>5, NoOfferFields
  <2>2. RecommendTypeOK'
    BY <1>4, <1>5, <2>1, EmptyCatalog DEF RecommendTypeOK
  <2> QED
    BY <1>4, <2>1, <2>2 DEF RecommendInv, Ordered, Chosen
<1>6. CASE /\ Comparable(C) /\ ranked' = C
           /\ offer' = [status |-> "stored", weight |-> w, shortlist |-> Shortlist(order),
                        baseline |-> b.key, selection |-> b.selection]
  <2>1. b.key \in RowId /\ b.selection \in {"configured", "fallback"}
    BY <1>1, <1>6, BaselineOfRows, CatalogRows
  <2>2. /\ \A i \in DOMAIN Shortlist(order) : Shortlist(order)[i] \in RowId
        /\ Len(Shortlist(order)) \in 1 .. ShortlistSize
    BY <1>1, <1>6, OfferTypes
  <2>3. /\ offer'.status = "stored" /\ offer'.weight = w /\ offer'.baseline = b.key
        /\ offer'.selection = b.selection /\ offer'.shortlist = Shortlist(order)
    BY <1>6
  <2>4. Ranking(ranked', offer'.weight) = order /\ Baseline(ranked', order) = b
    BY <1>6, <2>3
  <2> HIDE DEF order, b
  <2>5. RecommendTypeOK'
    BY <1>1, <1>4, <1>6, <2>1, <2>2, <2>3 DEF RecommendTypeOK
  <2>6. Ordered'
    BY <1>1, <1>6, <2>3, <2>4 DEF Ordered
  <2>7. Chosen'
    BY <1>1, <1>6, <2>3, <2>4 DEF Chosen
  <2> QED
    BY <1>4, <2>5, <2>6, <2>7 DEF RecommendInv
<1> QED
  BY <1>2, <1>5, <1>6

\* Requests: every step.
LEMMA NextRecommend == RecommendInv /\ [RecommendNext]_recommendVars => RecommendInv'
<1> SUFFICES ASSUME RecommendInv, [RecommendNext]_recommendVars PROVE RecommendInv'
  OBVIOUS
<1>1. ASSUME offer' = offer, ranked' = ranked PROVE Ordered' /\ Chosen'
  BY <1>1 DEF RecommendInv, Ordered, Chosen
<1>2. ASSUME SelectRows PROVE RecommendInv'
  <2>1. PICK tasks \in SUBSET TaskType \ {{}}, w \in Weight :
           request' = [tasks |-> tasks, weight |-> w,
                       candidates |-> Limit(results, {k \in DOMAIN results : TaskOf[k] \in tasks})]
    BY <1>2 DEF SelectRows
  <2>2. /\ request'.tasks = tasks /\ request'.weight = w
        /\ request'.candidates = Limit(results, {k \in DOMAIN results : TaskOf[k] \in tasks})
    BY <2>1
  <2>3. request'.candidates \in Catalog
    <3>1. results \in Catalog
      BY DEF RecommendInv, RecommendTypeOK
    <3> QED
      BY <2>2, <3>1, LimitedCatalog
  <2>4. offer'.status = "none" /\ offer'.shortlist = <<>>
    BY <1>2, NoOfferFields DEF SelectRows
  <2>5. RecommendTypeOK'
    BY <1>2, <2>2, <2>3, <2>4, EmptyCatalog DEF SelectRows, RecommendInv, RecommendTypeOK
  <2> QED
    BY <2>2, <2>4, <2>5 DEF RecommendInv, Ordered, Chosen
<1>3. ASSUME NEW k \in RowId, UpsertRow(k) PROVE RecommendInv'
  <2>1. PICK v \in Values :
           results' = [j \in DOMAIN results \cup {k} |-> IF j = k THEN v ELSE results[j]]
    BY <1>3 DEF UpsertRow
  <2>2. results' \in Catalog
    <3>1. results \in Catalog
      BY DEF RecommendInv, RecommendTypeOK
    <3>2. DOMAIN results \cup {k} \in SUBSET RowId
      BY <3>1, CatalogRows
    <3>3. results' \in [DOMAIN results \cup {k} -> Values]
      BY <2>1, <3>1, CatalogRows
    <3> QED
      BY <3>2, <3>3 DEF Catalog
  <2>3. edits' \in 0 .. MaxEdits
    BY <1>3 DEF UpsertRow, Editing, RecommendInv, RecommendTypeOK
  <2>4. UNCHANGED <<enabled, request, offer, ranked>>
    BY <1>3 DEF UpsertRow
  <2> QED
    BY <1>1, <2>2, <2>3, <2>4 DEF RecommendInv, RecommendTypeOK, Idle
<1>4. ASSUME NEW m \in Model, ToggleRuntime(m) PROVE RecommendInv'
  <2>1. enabled' \subseteq Model
    <3>1. enabled \subseteq Model
      BY DEF RecommendInv, RecommendTypeOK
    <3>2. enabled' = IF m \in enabled THEN enabled \ {m} ELSE enabled \cup {m}
      BY <1>4 DEF ToggleRuntime
    <3> QED
      BY <3>1, <3>2
  <2>0. edits' \in 0 .. MaxEdits
    BY <1>4 DEF ToggleRuntime, Editing, RecommendInv, RecommendTypeOK
  <2>2. UNCHANGED <<results, request, offer, ranked>>
    BY <1>4 DEF ToggleRuntime
  <2> QED
    BY <1>1, <2>0, <2>1, <2>2 DEF RecommendInv, RecommendTypeOK, Idle
<1>5. ASSUME UNCHANGED recommendVars PROVE RecommendInv'
  BY <1>1, <1>5 DEF recommendVars, RecommendInv, RecommendTypeOK, Idle
<1> QED
  BY <1>2, <1>3, <1>4, <1>5, RankKeepsInv DEF RecommendNext

LEMMA RecommendInvariant == RecommendSpec => []RecommendInv
BY InitRecommend, NextRecommend, PTL DEF RecommendSpec

\* Requests, offers and the catalog are of their types, whatever changes in between.
THEOREM RecommendTypes == RecommendSpec => []RecommendTypeOK
<1>1. RecommendInv => RecommendTypeOK
  BY DEF RecommendInv
<1> QED
  BY <1>1, RecommendInvariant, PTL

\* OrderFollowsWeights for every catalog, weight and precision of the scores.
THEOREM OffersFollowWeights == RecommendSpec => []OrderFollowsWeights
<1>1. RecommendInv => OrderFollowsWeights
  BY OrderedOffersFollowWeights DEF RecommendInv
<1> QED
  BY <1>1, RecommendInvariant, PTL

\* CheaperAndNoWorseWins for every catalog, weight and precision of the scores.
THEOREM CheaperComesFirst == RecommendSpec => []CheaperAndNoWorseWins
<1>1. RecommendInv => CheaperAndNoWorseWins
  BY OrderedOffersPutCheaperFirst DEF RecommendInv
<1> QED
  BY <1>1, RecommendInvariant, PTL

\* BaselineIsFair where no (benchmark, metric) measures two tasks.
THEOREM BaselinesAreFair ==
    ASSUME OneTaskPerGroup
    PROVE  RecommendSpec => []BaselineIsFair
<1>1. RecommendInv => BaselineIsFair
  BY ChosenBaselineIsFair DEF RecommendInv
<1> QED
  BY <1>1, RecommendInvariant, PTL

=============================================================================
