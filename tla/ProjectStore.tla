---------------------------- MODULE ProjectStore ----------------------------
(***************************************************************************)
(* One row of the project table and the PATCH / DELETE handlers on it      *)
(* (app/projects/service.py).  update_project loads the row into its       *)
(* session, validates against that copy, assigns, and commits; SQLAlchemy  *)
(* then writes only the columns whose value differs from the loaded one,   *)
(* and no row is locked, so two PATCHes may merge column by column.        *)
(***************************************************************************)
EXTENDS Naturals

CONSTANTS
    Editor,         \* concurrent PATCH requests of the owner
    Option,         \* the owner's recommendation options
    Model, ModelOf, \* RecommendationOption.model_id
    Task, TaskOf,   \* task_type_of_option: the task an option was ranked on
    Omitted         \* a field the PATCH does not carry

ASSUME OptionAssumption ==
    /\ Option # {}
    /\ ModelOf \in [Option -> Model]
    /\ TaskOf \in [Option -> Task]
    /\ Omitted \notin Option \cup Task

VARIABLES
    project,        \* "live" | "deleted"
    option, task,   \* the columns selected_option_id and task_type
    enabled,        \* models with an enabled agent_runtime_config row
    epc,            \* Editor -> "idle" | "loaded"
    loaded          \* Editor -> the row as its session loaded it

columns == <<option, task>>
storeVars == <<project, option, task, enabled, epc, loaded>>

Row == [option : Option, task : Task]
NoRow == [option |-> CHOOSE o \in Option : TRUE, task |-> TaskOf[CHOOSE o \in Option : TRUE]]

StoreTypeOK ==
    /\ project \in {"live", "deleted"}
    /\ option \in Option
    /\ task \in Task
    /\ enabled \subseteq Model
    /\ epc \in [Editor -> {"idle", "loaded"}]
    /\ loaded \in [Editor -> Row]

\* create_project: the task is the one the picked option was ranked on.
StoreInit ==
    /\ project = "live"
    /\ option \in Option
    /\ task = TaskOf[option]
    /\ enabled = Model
    /\ epc = [e \in Editor |-> "idle"]
    /\ loaded = [e \in Editor |-> NoRow]

-----------------------------------------------------------------------------

\* db.get(Project): 404 (nothing happens) when it is gone.
LoadProject(e) ==
    /\ epc[e] = "idle"
    /\ project = "live"
    /\ epc' = [epc EXCEPT ![e] = "loaded"]
    /\ loaded' = [loaded EXCEPT ![e] = [option |-> option, task |-> task]]
    /\ UNCHANGED <<project, columns, enabled>>

Close(e) ==
    /\ epc' = [epc EXCEPT ![e] = "idle"]
    /\ loaded' = [loaded EXCEPT ![e] = NoRow]

\* _resolve_task_type: an explicit task must be the option's own (else 422).
TaskAgrees(o, requested) == requested \in {TaskOf[o], Omitted}

\* The row this PATCH leaves in its session, or a refusal (404/422).
Accepted(e, o, t) ==
    IF o # Omitted THEN ModelOf[o] \in enabled /\ TaskAgrees(o, t)
                   ELSE TaskAgrees(loaded[e].option, t)

\* Mutant of Edited: a re-pick changes the option only.
EditedOptionOnly(e, o, t) ==
    [option |-> IF o # Omitted THEN o ELSE loaded[e].option, task |-> loaded[e].task]

\* The edited row: the task is always the one of the option it ends with.
Edited(e, o, t) ==
    IF o # Omitted THEN [option |-> o, task |-> TaskOf[o]]
    ELSE IF t # Omitted THEN [loaded[e] EXCEPT !.task = TaskOf[loaded[e].option]]
         ELSE loaded[e]

\* The commit writes the columns that changed with respect to the loaded copy
\* (StaleDataError, hence nothing, when the row is gone).
SavePatch(e, o, t) ==
    /\ epc[e] = "loaded"
    /\ IF project = "live" /\ Accepted(e, o, t)
       THEN LET new == Edited(e, o, t) IN
            /\ option' = IF new.option # loaded[e].option THEN new.option ELSE option
            /\ task' = IF new.task # loaded[e].task THEN new.task ELSE task
       ELSE UNCHANGED columns
    /\ Close(e)
    /\ UNCHANGED <<project, enabled>>

DeleteProject ==
    /\ project = "live"
    /\ project' = "deleted"
    /\ UNCHANGED <<columns, enabled, epc, loaded>>

\* The operator's catalog seed enables or disables a model's runtime config.
SetRuntime(m) ==
    /\ enabled' = IF m \in enabled THEN enabled \ {m} ELSE enabled \cup {m}
    /\ UNCHANGED <<project, columns, epc, loaded>>

Patch(e) ==
    \/ LoadProject(e)
    \/ \E o \in Option \cup {Omitted}, t \in Task \cup {Omitted} : SavePatch(e, o, t)

StoreNext ==
    \/ \E e \in Editor : Patch(e)
    \/ DeleteProject
    \/ \E m \in Model : SetRuntime(m)

StoreSpec == StoreInit /\ [][StoreNext]_storeVars

-----------------------------------------------------------------------------

\* The project's task is the one its selected option was ranked on: what
\* _resolve_task_type exists for, and what the agent image, the review
\* preferences and the label of every ingested run rely on.
TaskFollowsOption == task = TaskOf[option]

\* No two PATCHes overlap: whoever has the row loaded sees what is stored.
LoadedIsStored ==
    \A e \in Editor : epc[e] = "loaded" => loaded[e] = [option |-> option, task |-> task]

=============================================================================
