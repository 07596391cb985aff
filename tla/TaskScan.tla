------------------------------ MODULE TaskScan ------------------------------
(***************************************************************************)
(* enumerate_scheduled_tasks (reforge-platform-windows, tasks.rs): the     *)
(* folders of the Task Scheduler are walked depth first; in each folder    *)
(* the tasks come before the subfolders.  Every call of the COM interface  *)
(* may fail.                                                               *)
(***************************************************************************)
EXTENDS Naturals, Sequences, FiniteSets, SequencesExt

CONSTANTS
    Hierarchies,   \* functions from a folder to [tasks, folders], sequences of names
    RootFolder,
    MaxTasks, MaxFolders, MaxTaskDepth

VARIABLES
    folders, pc,
    stack,         \* the calls of enumerate_folder: [folder, stage, index]
    observations,  \* the tasks read, with or without their definition
    errors         \* [path, operation]; the path may be unknown ("none")

tsVars == <<folders, pc, stack, observations, errors>>

(* The folders from the root to a folder of a hierarchy: the ones in every *)
(* set that has the folder and, with a folder, those it lies in.           *)
Parents(h, f) == {g \in DOMAIN h : f \in Range(h[g].folders)}
Above(h, f) ==
    {g \in DOMAIN h : \A S \in SUBSET DOMAIN h : f \in S /\ (\A c \in S : Parents(h, c) \subseteq S) => g \in S}

(* A hierarchy begins at the root folder, and its tasks have paths.        *)
TaskAssumption ==
    /\ \A h \in Hierarchies : RootFolder \in DOMAIN h /\ \A f \in DOMAIN h :
          /\ RootFolder \in Above(h, f)
          /\ h[f].tasks \in Seq(STRING) /\ h[f].folders \in Seq(DOMAIN h)
    /\ MaxTasks \in Nat /\ MaxFolders \in Nat /\ MaxTaskDepth \in Nat

TsInit ==
    /\ folders \in Hierarchies /\ pc = "setup" /\ stack = <<>>
    /\ observations = {} /\ errors = {}

Error(path, operation) == errors' = errors \cup {[path |-> path, operation |-> operation]}

Frame(folder) == [folder |-> folder, stage |-> "enter", index |-> 1]
Top == stack[Len(stack)]
Here == folders[Top.folder]
SetTop(f) == stack' = [stack EXCEPT ![Len(stack)] = f]
Return == stack' = Front(stack)

(* enumerate_scheduled_tasks: COM, the service, the connection, the root.  *)
Connect ==
    /\ pc = "setup"
    /\ \/ \E operation \in {"initialize", "create", "connect"} :
             Error("none", operation) /\ pc' = "done" /\ UNCHANGED stack
       \/ Error(RootFolder, "get folder") /\ pc' = "done" /\ UNCHANGED stack
       \/ pc' = "walk" /\ stack' = <<Frame(RootFolder)>> /\ UNCHANGED errors
    /\ UNCHANGED <<folders, observations>>

(* The beginning of enumerate_folder: the depth, GetTasks and their count. *)
EnterFolder ==
    /\ pc = "walk" /\ stack # <<>> /\ Top.stage = "enter"
    /\ IF Len(stack) - 1 > MaxTaskDepth THEN Error("none", "folders") /\ Return
       ELSE \/ Error(Top.folder, "tasks") /\ Return
            \/ /\ Error(Top.folder, "tasks")    \* the count fails or is too large
               /\ SetTop([Top EXCEPT !.stage = "open"])
            \/ /\ Len(Here.tasks) <= MaxTasks /\ UNCHANGED errors
               /\ SetTop([Top EXCEPT !.stage = "tasks"])
    /\ UNCHANGED <<folders, pc, observations>>

(* Faulty variant: the loop over the tasks ends at the bound silently.     *)
NextTaskSilently ==
    /\ pc = "walk" /\ stack # <<>> /\ Top.stage = "tasks"
    /\ IF Top.index > Len(Here.tasks) \/ Cardinality(observations) >= MaxTasks
       THEN SetTop([Top EXCEPT !.stage = "open"]) /\ UNCHANGED <<observations, errors>>
       ELSE /\ SetTop([Top EXCEPT !.index = @ + 1])
            /\ observations' = observations \cup {Here.tasks[Top.index]} /\ UNCHANGED errors
    /\ UNCHANGED <<folders, pc>>

(* Faulty variant: the bound is applied to each folder alone.              *)
NextTaskOfFolder ==
    /\ pc = "walk" /\ stack # <<>> /\ Top.stage = "tasks"
    /\ IF Top.index > Len(Here.tasks)
       THEN SetTop([Top EXCEPT !.stage = "open"]) /\ UNCHANGED <<observations, errors>>
       ELSE /\ SetTop([Top EXCEPT !.index = @ + 1])
            /\ observations' = observations \cup {Here.tasks[Top.index]} /\ UNCHANGED errors
    /\ UNCHANGED <<folders, pc>>

(* read_task: without its path the task is left out; without its           *)
(* definition it is kept.                                                  *)
ReadTask(t) ==
    \/ observations' = observations \cup {t} /\ UNCHANGED errors
    \/ observations' = observations \cup {t} /\ Error(t, "definition")
    \/ Error(Top.folder, "read task") /\ UNCHANGED observations

(* One step of the loop over the tasks of a folder.                        *)
NextTask ==
    /\ pc = "walk" /\ stack # <<>> /\ Top.stage = "tasks"
    /\ IF Top.index > Len(Here.tasks)
       THEN SetTop([Top EXCEPT !.stage = "open"]) /\ UNCHANGED <<observations, errors>>
       ELSE IF Cardinality(observations) >= MaxTasks
       THEN Error(Top.folder, "tasks") /\ SetTop([Top EXCEPT !.stage = "open"]) /\ UNCHANGED observations
       ELSE SetTop([Top EXCEPT !.index = @ + 1]) /\ ReadTask(Here.tasks[Top.index])
    /\ UNCHANGED <<folders, pc>>

(* GetFolders and their count.                                             *)
OpenFolders ==
    /\ pc = "walk" /\ stack # <<>> /\ Top.stage = "open"
    /\ \/ Error(Top.folder, "folders") /\ Return
       \/ /\ Len(Here.folders) <= MaxFolders /\ UNCHANGED errors
          /\ SetTop([Top EXCEPT !.stage = "folders", !.index = 1])
    /\ UNCHANGED <<folders, pc, observations>>

(* Faulty variant: the loop does not go on after a subfolder.              *)
NextFolderAgain ==
    /\ pc = "walk" /\ stack # <<>> /\ Top.stage = "folders"
    /\ IF Top.index > Len(Here.folders) THEN Return ELSE stack' = Append(stack, Frame(Here.folders[Top.index]))
    /\ UNCHANGED <<folders, pc, observations, errors>>

(* One step of the loop over the subfolders: the call for the next one.    *)
NextFolder ==
    /\ pc = "walk" /\ stack # <<>> /\ Top.stage = "folders"
    /\ IF Top.index > Len(Here.folders) THEN Return /\ UNCHANGED errors
       ELSE \/ Error(Top.folder, "folders") /\ SetTop([Top EXCEPT !.index = @ + 1])
            \/ /\ stack' = Append([stack EXCEPT ![Len(stack)].index = @ + 1], Frame(Here.folders[Top.index]))
               /\ UNCHANGED errors
    /\ UNCHANGED <<folders, pc, observations>>

Finish ==
    /\ pc = "walk" /\ stack = <<>> /\ pc' = "done"
    /\ UNCHANGED <<folders, stack, observations, errors>>

TsNext == Connect \/ EnterFolder \/ NextTask \/ OpenFolders \/ NextFolder \/ Finish

TsSpec == TsInit /\ [][TsNext]_tsVars

(***************************************************************************)
(* Properties                                                              *)
(***************************************************************************)
Failed == {e.path : e \in errors}


(* In the end every task is observed, or an error stands for it: its       *)
(* folder's, that of a folder above, or one without a path.  No call that  *)
(* fails, and no bound, makes a task disappear without a trace.            *)
TaskIsAccountedFor ==
    pc = "done" =>
        \A f \in DOMAIN folders : \A t \in Range(folders[f].tasks) :
            t \in observations \/ Failed \cap (Above(folders, f) \cup {"none"}) # {}

(* The bound holds for the whole hierarchy, not for each folder.           *)
TasksAreBounded == Cardinality(observations) <= MaxTasks
=============================================================================
