------------------------------ MODULE Terminal ------------------------------
(***************************************************************************)
(* The terminal interface of reforge-cli (tui.rs, interactive.rs): one     *)
(* session at a time walks through screens; every key is an action.  The   *)
(* session keeps the inventory it last used, the selected components and   *)
(* the preferences; scans, package creation and restores run beside a wait *)
(* for Ctrl+C.  Another process may scan, the machine may change, files in *)
(* the backup directory may come and go, and the session may be killed.    *)
(*                                                                         *)
(* An inventory is a function from components to what the code looks at:   *)
(* the category, flags that make it unsafe, and whether it is portable,    *)
(* recommended or marked for an AI workstation.  Module PackageCreate has  *)
(* the creation in detail, RunService the restore commands.                *)
(***************************************************************************)
EXTENDS Naturals, Sequences, FiniteSets

CONSTANTS
    Machine,      \* <<inventories>>: what a scan finds, as the machine changes
    Presets,      \* the presets offered
    Dirs,         \* backup directories; the first choice is "documents"
    Names,        \* names a backup may get in a directory
    StartFiles,   \* backups present at first
    Runs,         \* run identities
    MaxOutside    \* bound on what happens outside the session

VARIABLES
    scr,          \* the screen, and the file, run and category it is about
    memory, disk, \* the inventory of the session and the stored one; 0: none
    machine,      \* index of the machine's present state
    old,          \* stored scans that are over 24 hours old
    held,         \* inventories the session has shown so far
    selected, initialized,
    review,       \* components of the selection that was reviewed
    prefs, saved, \* preferences of the session and of preferences.json
    files,        \* backups that exist: path -> components, {} when there is none
    made, told,   \* backups written by a session, and those it announced
    unsaid,       \* backups whose announcement an error or a kill prevented
    run,          \* run -> [file, approved, status, pending, stored]
    accepted, executed, promised,
    outside

uiVars == <<memory, disk, machine, old, held, selected, initialized, review, prefs, saved>>
fileVars == <<files, made, told, unsaid>>
runVars == <<run, accepted, executed, promised>>
termVars == <<scr, uiVars, fileVars, runVars, outside>>

Paths == Dirs \X Names
NoPath == <<"none", "none">>
Screen(at) == [at |-> at, file |-> NoPath, run |-> "none", cat |-> "none", next |-> "none",
               cancel |-> FALSE]
NoRun == [file |-> NoPath, approved |-> FALSE, status |-> "none", pending |-> FALSE,
          stored |-> FALSE]

TermInit ==
    /\ scr = Screen("start") /\ memory = 0 /\ disk \in {0, 1} /\ machine = 1
    /\ old = {} /\ held = {} /\ selected = {} /\ initialized = FALSE /\ review = {}
    /\ saved \in [welcomed : BOOLEAN, dir : {"documents"}] /\ prefs = saved
    /\ files = [p \in Paths |-> IF p \in StartFiles THEN DOMAIN Machine[1] ELSE {}]
    /\ made = {} /\ told = {} /\ unsaid = {}
    /\ run = [r \in Runs |-> NoRun] /\ accepted = {} /\ executed = {} /\ promised = {}
    /\ outside = 0

At(at) == scr.at = at
To(at) == scr' = [scr EXCEPT !.at = at]
GoTo(at) == scr' = Screen(at)
(* An error of a screen is shown at the home menu; "cancelled" ends the    *)
(* session.                                                                *)
Fail == GoTo("home")
Exit == GoTo("exit")
Exists(p) == files[p] # {}

(***************************************************************************)
(* What may be selected                                                    *)
(***************************************************************************)
Inv(i) == Machine[i]
Present(i) == DOMAIN Inv(i)
InCategory(i, cat) == {c \in Present(i) : Inv(i)[c].cat = cat}
(* component_is_safe_for_default, component_is_safely_portable             *)
UnsafeFlags == {"sensitive", "catalogOnly", "secret", "hook", "secretArtifact", "large", "binary"}
Safe(i) == {c \in Present(i) : Inv(i)[c].flags \cap UnsafeFlags = {}}
Portable(i) == {c \in Safe(i) : Inv(i)[c].portable}
(* default_selection *)
Recommended(i) ==
    {c \in Present(i) : Inv(i)[c].recommended /\ Inv(i)[c].flags \cap {"sensitive", "secret"} = {}}
Categories == UNION {{Machine[i][c].cat : c \in DOMAIN Machine[i]} : i \in DOMAIN Machine}

(* preset_selection                                                        *)
PresetSelection(i, preset) ==
    LET of(cats) == UNION {InCategory(i, cat) : cat \in cats}
    IN Safe(i) \cap
       CASE preset = "Recommended" -> Recommended(i)
         [] preset = "Developer" ->
              of({"Programs", "DeveloperTools", "Runtimes", "Packages", "Configurations"})
         [] preset = "AiDevelopment" ->
              of({"AiHarnesses", "McpServers", "Configurations", "Runtimes", "DeveloperTools"})
         [] preset = "AiWorkstation" -> Portable(i) \cap
              (of({"AiHarnesses", "McpServers", "Configurations", "Runtimes", "DeveloperTools",
                   "Packages"}) \cup {c \in Present(i) : Inv(i)[c].ai})
         [] preset = "FullSafe" -> Portable(i)
         [] preset = "Minimal" -> Recommended(i) \cap of({"Programs", "Configurations"})
         [] OTHER -> {}

(* ApplicationService.review_selection reads the stored inventory: a       *)
(* component it does not have, or refuses, is an error.  The policy leaves *)
(* out single large files, not components with many.                       *)
Reviewable(s) ==
    /\ disk # 0
    /\ \A c \in s : c \in Present(disk) /\ Inv(disk)[c].flags \cap {"sensitive", "secret", "binary"} = {}

(***************************************************************************)
(* Start, welcome and home                                                 *)
(***************************************************************************)
(* A new session knows only what is stored.                                *)
Launch ==
    /\ At("exit")
    /\ GoTo("start")
    /\ memory' = 0 /\ held' = {} /\ selected' = {} /\ initialized' = FALSE /\ review' = {}
    /\ prefs' = saved
    /\ UNCHANGED <<disk, machine, old, saved, fileVars, runVars, outside>>

(* Saving the preferences may fail; then the stored ones stay.             *)
SaveTo(p) == saved' = p
Unsaved == saved' = saved

(* welcome: shown until it was accepted once.  Restarting as administrator *)
(* records the acceptance first, and ends this session if it succeeds.     *)
Welcome(key) ==
    /\ At("start")
    /\ IF prefs.welcomed THEN key = "Enter" /\ GoTo("home") /\ UNCHANGED <<prefs, saved>>
       ELSE \/ key = "Esc" /\ Exit /\ UNCHANGED <<prefs, saved>>
            \/ /\ key \in {"Enter", "Restart"}
               /\ prefs' = [prefs EXCEPT !.welcomed = TRUE]
               /\ \/ SaveTo(prefs') /\ GoTo(IF key = "Enter" THEN "home" ELSE "exit")
                  \/ key = "Restart" /\ SaveTo(prefs') /\ To("start")
                  \/ Unsaved /\ Exit
    /\ UNCHANGED <<memory, disk, machine, old, held, selected, initialized, review, fileVars,
                   runVars, outside>>

(* ensure_inventory: the session's inventory, else the stored one, else a  *)
(* scan; the user decides about one that is over a day old.                *)
EnsureInventory(next) ==
    LET i == IF memory # 0 THEN memory ELSE disk
    IN /\ memory' = i
       /\ held' = held \cup ({i} \ {0})
       /\ scr' = [Screen(IF i = 0 THEN "scan" ELSE IF i \in old THEN "refresh" ELSE next)
                  EXCEPT !.next = next]

Home(next) ==
    /\ At("home")
    /\ CASE next \in {"preset", "custom", "browse"} -> EnsureInventory(next)
         [] next = "scan" -> scr' = [Screen("scan") EXCEPT !.next = "browse"]
                             /\ UNCHANGED <<memory, held>>
         [] OTHER -> GoTo(next) /\ UNCHANGED <<memory, held>>
    /\ UNCHANGED <<disk, machine, old, selected, initialized, review, prefs, saved, fileVars,
                   runVars, outside>>

RefreshInventory(key) ==
    /\ At("refresh")
    /\ CASE key = "Rescan" -> To("scan")
         [] key = "Use" -> To(scr.next)
         [] OTHER -> GoTo("home")
    /\ UNCHANGED <<uiVars, fileVars, runVars, outside>>

(* scan_current: the scan is stored by the service and kept by the         *)
(* session.  After Ctrl+C the session waits for it and drops its result.   *)
ScanCurrent ==
    /\ At("scan")
    /\ \/ /\ disk' = machine /\ memory' = machine /\ held' = held \cup {machine}
          /\ old' = old \ {machine} /\ To(scr.next)
       \/ Fail /\ UNCHANGED <<disk, memory, held, old>>
       \/ /\ disk' \in {disk, machine} /\ old' = old \ ({disk'} \ {disk}) /\ Exit
          /\ UNCHANGED <<memory, held>>
    /\ UNCHANGED <<machine, selected, initialized, review, prefs, saved, fileVars, runVars,
                   outside>>

(***************************************************************************)
(* Quick backup                                                            *)
(***************************************************************************)
(* quick_backup after choose_preset; the default preset itself is cosmetic.*)
QuickBackup(preset) ==
    /\ At("preset")
    /\ \/ /\ selected' = PresetSelection(memory, preset) /\ initialized' = TRUE
          /\ \/ preset = "Custom" /\ EnsureInventory("custom") /\ UNCHANGED review
             \/ /\ preset # "Custom" /\ Reviewable(selected')
                /\ review' = selected' /\ GoTo("quickReview") /\ UNCHANGED <<memory, held>>
             \/ /\ preset # "Custom" /\ ~Reviewable(selected')
                /\ Fail /\ UNCHANGED <<review, memory, held>>
       \/ Fail /\ UNCHANGED <<selected, initialized, review, memory, held>>
    /\ UNCHANGED <<disk, machine, old, prefs, saved, fileVars, runVars, outside>>

(* unique_backup_path finds a name that is free now, or gives up.          *)
StartCreation ==
    LET free == {p \in Paths : p[1] = prefs.dir /\ ~Exists(p)}
    IN IF review = {} \/ free = {} THEN GoTo("home")
       ELSE \E p \in free : scr' = [Screen("creating") EXCEPT !.file = p]

QuickReview(key) ==
    /\ At("quickReview")
    /\ CASE key = "Enter" -> StartCreation /\ UNCHANGED <<memory, held>>
         [] key = "C" -> EnsureInventory("custom")
         [] OTHER -> GoTo("home") /\ UNCHANGED <<memory, held>>
    /\ UNCHANGED <<disk, machine, old, selected, initialized, review, prefs, saved, fileVars,
                   runVars, outside>>

(***************************************************************************)
(* create_reviewed_backup                                                  *)
(***************************************************************************)
(* The worker: it fails, or it publishes the reviewed selection at a path  *)
(* that is still free.  A cancellation it notices too late does not stop   *)
(* it.                                                                     *)
CreateWorker ==
    /\ At("creating")
    /\ \/ /\ Reviewable(review) /\ ~Exists(scr.file)
          /\ files' = [files EXCEPT ![scr.file] = review]
          /\ made' = made \cup {scr.file}
          /\ told' = told \ {scr.file} /\ unsaid' = unsaid \ {scr.file}
          /\ To("written")
       \/ To("notWritten") /\ UNCHANGED fileVars
    /\ UNCHANGED <<uiVars, runVars, outside>>

RequestCancel ==
    /\ scr.at \in {"creating", "written", "notWritten"} /\ ~scr.cancel
    /\ scr' = [scr EXCEPT !.cancel = TRUE]
    /\ UNCHANGED <<uiVars, fileVars, runVars, outside>>

(* Faulty variant: a cancelled creation is not waited for.                 *)
CreateEndsUnread ==
    /\ scr.at \in {"written", "notWritten"}
    /\ IF At("written") /\ ~scr.cancel /\ Exists(scr.file)
       THEN told' = told \cup {scr.file} /\ To("created")
       ELSE told' = told /\ IF scr.cancel THEN Exit ELSE Fail
    /\ UNCHANGED <<uiVars, files, made, unsaid, runVars, outside>>

(* The result of the worker counts, cancelled or not, and its package is   *)
(* read back before it is announced.  When listening for Ctrl+C failed     *)
(* (cancelled?) or the package cannot be read back (inspect_package), the  *)
(* error is all the user sees, although the package exists.                *)
CreateEnds ==
    /\ scr.at \in {"written", "notWritten"}
    /\ \/ /\ At("written") /\ Exists(scr.file)
          /\ told' = told \cup {scr.file} /\ To("created") /\ UNCHANGED unsaid
       \/ /\ At("written")
          /\ unsaid' = unsaid \cup {scr.file} /\ Fail /\ UNCHANGED told
       \/ /\ At("notWritten")
          /\ Fail \/ (scr.cancel /\ Exit)
          /\ UNCHANGED <<told, unsaid>>
    /\ UNCHANGED <<uiVars, files, made, runVars, outside>>

Done ==
    /\ scr.at \in {"created", "browse", "report"}
    /\ GoTo("home")
    /\ UNCHANGED <<uiVars, fileVars, runVars, outside>>

(***************************************************************************)
(* Custom backup                                                           *)
(***************************************************************************)
(* custom_backup starts from the recommended components once.              *)
EnterCustom ==
    /\ At("custom") /\ ~initialized
    /\ selected' = PresetSelection(memory, "Recommended") /\ initialized' = TRUE
    /\ UNCHANGED <<scr, memory, disk, machine, old, held, review, prefs, saved, fileVars,
                   runVars, outside>>

Select(s) ==
    /\ selected' = s
    /\ UNCHANGED <<memory, disk, machine, old, held, initialized, review, prefs, saved,
                   fileVars, runVars, outside>>

(* Space on a category: all of its safe components, or none of them.       *)
ToggleCategory(cat) ==
    LET safe == InCategory(memory, cat) \cap Safe(memory)
    IN /\ At("custom") /\ initialized
       /\ Select(IF safe # {} /\ safe \subseteq selected THEN selected \ safe
                 ELSE selected \cup safe)
       /\ UNCHANGED scr

OpenCategory(cat) ==
    /\ At("custom") /\ initialized /\ InCategory(memory, cat) # {}
    /\ scr' = [scr EXCEPT !.at = "category", !.cat = cat]
    /\ UNCHANGED <<uiVars, fileVars, runVars, outside>>

(* Faulty variant: Space does not look at the safety of a component.       *)
ToggleAnyComponent(c) ==
    /\ At("category") /\ c \in InCategory(memory, scr.cat)
    /\ Select(IF c \in selected THEN selected \ {c} ELSE selected \cup {c})
    /\ UNCHANGED scr

(* select_category and show_component_details: an unsafe component is      *)
(* never added; the warning and the details offer to take it out.          *)
ToggleComponent(c) ==
    /\ At("category") /\ c \in InCategory(memory, scr.cat)
    /\ c \in selected \/ c \in Safe(memory)
    /\ Select(IF c \in selected THEN selected \ {c} ELSE selected \cup {c})
    /\ UNCHANGED scr

SelectAllSafe ==
    /\ At("category")
    /\ Select(selected \cup (InCategory(memory, scr.cat) \cap Safe(memory)))
    /\ UNCHANGED scr

SelectNone ==
    /\ At("category")
    /\ Select(selected \ InCategory(memory, scr.cat))
    /\ UNCHANGED scr

ReviewCustom ==
    /\ At("custom") /\ initialized /\ selected # {}
    /\ IF Reviewable(selected) THEN review' = selected /\ To("customReview")
       ELSE review' = review /\ Fail
    /\ UNCHANGED <<memory, disk, machine, old, held, selected, initialized, prefs, saved,
                   fileVars, runVars, outside>>

CustomReview(key) ==
    /\ At("customReview")
    /\ IF key = "Enter" THEN StartCreation ELSE To("custom")
    /\ UNCHANGED <<uiVars, fileVars, runVars, outside>>

(***************************************************************************)
(* History and settings                                                    *)
(***************************************************************************)
(* backup_history lists the configured directory; opening one inspects it. *)
OpenBackup(p) ==
    /\ At("history") /\ p[1] = prefs.dir /\ Exists(p)
    /\ scr' = [Screen("actions") EXCEPT !.file = p]
    /\ UNCHANGED <<uiVars, fileVars, runVars, outside>>

(* Verifying and restoring inspect the file again.                         *)
BackupAction(key) ==
    /\ At("actions")
    /\ CASE key = "Verify" -> IF Exists(scr.file) THEN UNCHANGED scr ELSE Fail
         [] key = "Restore" -> IF Exists(scr.file) THEN To("mode") ELSE Fail
         [] OTHER -> To("confirm")
    /\ UNCHANGED <<uiVars, fileVars, runVars, outside>>

ConfirmDelete(key) ==
    /\ At("confirm")
    /\ IF key = "Delete"
       THEN IF Exists(scr.file)
            THEN files' = [files EXCEPT ![scr.file] = {}] /\ GoTo("history")
            ELSE files' = files /\ Fail
       ELSE files' = files /\ To("actions")
    /\ UNCHANGED <<uiVars, made, told, unsaid, runVars, outside>>

(* Faulty variant: the session takes the setting before it is stored.      *)
SettingsUnstored(dir) ==
    /\ At("settings")
    /\ prefs' = [prefs EXCEPT !.dir = dir]
    /\ \/ SaveTo(prefs') /\ UNCHANGED scr
       \/ Unsaved /\ Fail
    /\ UNCHANGED <<memory, disk, machine, old, held, selected, initialized, review, fileVars,
                   runVars, outside>>

Settings(dir) ==
    /\ At("settings")
    /\ \/ /\ prefs' = [prefs EXCEPT !.dir = dir] /\ SaveTo(prefs') /\ UNCHANGED scr
       \/ /\ prefs' = prefs /\ Unsaved /\ Fail
    /\ UNCHANGED <<memory, disk, machine, old, held, selected, initialized, review, fileVars,
                   runVars, outside>>

(***************************************************************************)
(* Restore                                                                 *)
(***************************************************************************)
(* choose_package offers the directory; browse_package_file any file.      *)
ChoosePackage(p) ==
    /\ At("package") /\ Exists(p)
    /\ scr' = [Screen("mode") EXCEPT !.file = p]
    /\ UNCHANGED <<uiVars, fileVars, runVars, outside>>

(* restore_package, and the preview under Advanced: a fresh run, whose     *)
(* plan is then built.                                                     *)
ChooseMode(r, preview) ==
    /\ At("mode") /\ run[r] = NoRun
    /\ scr' = [scr EXCEPT !.at = "planning", !.run = r, !.next = IF preview THEN "report" ELSE "plan"]
    /\ UNCHANGED <<uiVars, fileVars, runVars, outside>>

Planned == [NoRun EXCEPT !.file = scr.file, !.status = "Planned", !.stored = TRUE]

(* build_plan_with_cancel: the plan is stored and its run is not approved. *)
(* After Ctrl+C the preview is dropped, stored or not.                     *)
BuildPlan ==
    /\ At("planning")
    /\ \/ /\ Exists(scr.file) /\ run' = [run EXCEPT ![scr.run] = Planned] /\ To(scr.next)
       \/ run' = run /\ Fail
       \/ Exists(scr.file) /\ run' = [run EXCEPT ![scr.run] = Planned] /\ Exit
    /\ UNCHANGED <<uiVars, fileVars, accepted, executed, promised, outside>>

PlanKey(key) ==
    /\ At("plan")
    /\ IF key = "Enter" THEN accepted' = accepted \cup {scr.run} /\ To("restoring")
       ELSE accepted' = accepted /\ GoTo("home")
    /\ UNCHANGED <<uiVars, fileVars, run, executed, promised, outside>>

(* What an execution may leave: Completed has no open action.              *)
Outcomes ==
    {o \in [status : {"Completed", "WaitingForUser", "Failed", "Cancelled"}, pending : BOOLEAN] :
        /\ o.status = "Completed" => ~o.pending
        /\ o.status = "WaitingForUser" => o.pending}

(* execute_planned_restore and resume_restore, up to the report.  The      *)
(* package must still be there, and a resumed run must be approved.  After *)
(* Ctrl+C the execution is waited for and its report is dropped.           *)
Restoring ==
    /\ scr.at \in {"restoring", "resuming"}
    /\ \/ /\ Exists(run[scr.run].file) /\ run[scr.run].stored
          /\ At("resuming") => run[scr.run].approved
          /\ \E o \in Outcomes :
                /\ run' = [run EXCEPT ![scr.run].approved = TRUE, ![scr.run].status = o.status,
                                      ![scr.run].pending = o.pending]
                /\ \/ To(IF o.pending THEN "pause" ELSE "report")
                   \/ Exit
          /\ executed' = executed \cup {scr.run}
       \/ Fail /\ UNCHANGED <<run, executed>>
    /\ UNCHANGED <<uiVars, fileVars, accepted, promised, outside>>

(* handle_restore_report: acknowledge or skip and resume, or stop with the *)
(* advice to resume later.                                                 *)
PauseKey(key) ==
    /\ At("pause")
    /\ IF key = "Stop" THEN promised' = promised \cup {scr.run} /\ GoTo("home")
       ELSE promised' = promised /\ To("resuming")
    /\ UNCHANGED <<uiVars, fileVars, run, accepted, executed, outside>>

(* Faulty variant: previews are offered too.                               *)
ResumableUnapproved(r) == run[r].stored /\ run[r].status # "Completed"

(* Faulty variant: only a run that waits for the user is offered.          *)
ResumableWaiting(r) == run[r].stored /\ run[r].approved /\ run[r].status = "WaitingForUser"

(* resume_pending: the runs it lists.                                      *)
Resumable(r) == run[r].stored /\ run[r].approved /\ run[r].status # "Completed"

ResumePending(r) ==
    /\ At("runs") /\ Resumable(r)
    /\ scr' = [Screen("resuming") EXCEPT !.run = r]
    /\ UNCHANGED <<uiVars, fileVars, runVars, outside>>

(***************************************************************************)
(* Esc, Ctrl+C and everything outside                                      *)
(***************************************************************************)
Back ==
    /\ \/ scr.at \in {"preset", "history", "package", "mode", "runs", "settings"}
          /\ GoTo("home")
       \/ At("custom") /\ initialized /\ GoTo("home")
       \/ At("category") /\ To("custom")
       \/ At("actions") /\ GoTo("history")
    /\ UNCHANGED <<uiVars, fileVars, runVars, outside>>

(* read_key turns Ctrl+C into "cancelled"; home also offers Exit.          *)
CtrlC ==
    /\ scr.at \in {"start", "home", "refresh", "preset", "quickReview", "custom", "category",
                   "customReview", "created", "browse", "report", "history", "actions", "confirm",
                   "settings", "package", "mode", "plan", "pause", "runs"}
    /\ Exit
    /\ UNCHANGED <<uiVars, fileVars, runVars, outside>>

Outside == outside < MaxOutside /\ outside' = outside + 1

(* The session is killed, maybe before it announced what was written; a    *)
(* restore may have got anywhere by then.                                  *)
Kill ==
    /\ Outside /\ ~At("exit") /\ Exit
    /\ unsaid' = IF At("written") THEN unsaid \cup {scr.file} ELSE unsaid
    /\ \/ UNCHANGED <<run, executed>>
       \/ /\ At("restoring") /\ run[scr.run].stored /\ Exists(run[scr.run].file)
          /\ run' = [run EXCEPT ![scr.run].approved = TRUE, ![scr.run].status = "Running"]
          /\ executed' = executed \cup {scr.run}
    /\ UNCHANGED <<uiVars, files, made, told, accepted, promised>>

MachineChanges ==
    /\ Outside /\ machine < Len(Machine) /\ machine' = machine + 1
    /\ UNCHANGED <<scr, memory, disk, old, held, selected, initialized, review, prefs, saved,
                   fileVars, runVars>>

ScanElsewhere ==
    /\ Outside /\ disk # machine /\ disk' = machine
    /\ UNCHANGED <<scr, memory, machine, old, held, selected, initialized, review, prefs, saved,
                   fileVars, runVars>>

DayPasses ==
    /\ Outside /\ old # {memory, disk} \ {0} /\ old' = {memory, disk} \ {0}
    /\ UNCHANGED <<scr, memory, disk, machine, held, selected, initialized, review, prefs, saved,
                   fileVars, runVars>>

(* Another program makes or removes a file; what it makes is no package of *)
(* a session.                                                              *)
FileElsewhere(p) ==
    /\ Outside
    /\ files' = [files EXCEPT ![p] = IF Exists(p) THEN {} ELSE DOMAIN Machine[1]]
    /\ made' = made \ {p} /\ told' = told \ {p} /\ unsaid' = unsaid \ {p}
    /\ UNCHANGED <<scr, uiVars, runVars>>

TermNext ==
    \/ Launch
    \/ \E k \in {"Enter", "Esc", "Restart"} : Welcome(k)
    \/ \E n \in {"preset", "custom", "browse", "scan", "history", "settings", "package", "runs"} :
          Home(n)
    \/ \E k \in {"Rescan", "Use", "Esc"} : RefreshInventory(k)
    \/ ScanCurrent
    \/ \E p \in Presets : QuickBackup(p)
    \/ \E k \in {"Enter", "C", "Esc"} : QuickReview(k)
    \/ CreateWorker \/ RequestCancel \/ CreateEnds \/ Done
    \/ EnterCustom
    \/ \E cat \in Categories : ToggleCategory(cat) \/ OpenCategory(cat)
    \/ \E c \in UNION {DOMAIN Machine[i] : i \in DOMAIN Machine} : ToggleComponent(c)
    \/ SelectAllSafe \/ SelectNone \/ ReviewCustom
    \/ \E k \in {"Enter", "Esc"} : CustomReview(k) \/ PlanKey(k)
    \/ \E p \in Paths : OpenBackup(p) \/ ChoosePackage(p) \/ FileElsewhere(p)
    \/ \E k \in {"Verify", "Restore", "Delete"} : BackupAction(k)
    \/ \E k \in {"Delete", "Keep"} : ConfirmDelete(k)
    \/ \E d \in Dirs : Settings(d)
    \/ \E r \in Runs : ResumePending(r) \/ \E preview \in BOOLEAN : ChooseMode(r, preview)
    \/ BuildPlan \/ Restoring
    \/ \E k \in {"Go on", "Stop"} : PauseKey(k)
    \/ Back \/ CtrlC \/ Kill \/ MachineChanges \/ ScanElsewhere \/ DayPasses

TermSpec == TermInit /\ [][TermNext]_termVars

(***************************************************************************)
(* Properties                                                              *)
(***************************************************************************)
(* Every selected component was safe in an inventory this session showed,  *)
(* whatever keys were pressed (select_category, preset_selection).         *)
SelectionIsEarned == selected \subseteq UNION {Safe(i) : i \in held}

(* A backup that a session wrote is announced by it, however late the user *)
(* asked to cancel, unless the session ended between the writing and the   *)
(* announcement: it was killed, or it showed an error of the listener for  *)
(* Ctrl+C or of the read-back instead (create_reviewed_backup).            *)
BackupIsTold ==
    scr.at \notin {"creating", "written", "notWritten"} => made \subseteq told \cup unsaid

(* A run is executed, and offered for resumption, only when the user       *)
(* accepted the preview of that very run (restore_package, resume_pending).*)
GoesOnWithConsent == \A r \in Runs : r \in executed \/ Resumable(r) => r \in accepted

(* A run stopped at a pause, with the advice to resume it later, is        *)
(* offered by Resume pending restore until it is complete.                 *)
StoppedRunsResume ==
    \A r \in promised : Resumable(r) \/ run[r].status = "Completed"

(* The backup directory a session uses is the one the next session will    *)
(* use too, even when saving fails (settings).                             *)
DirectoryIsStored == prefs.dir = saved.dir

(***************************************************************************)
(* Said by the code or its documents, and not kept (see the README)        *)
(***************************************************************************)
(* The settings screen says that large data and unknown binaries are       *)
(* excluded: every component about to be written is safe by the inventory  *)
(* the session shows, also after a new scan (custom_backup).               *)
SafetyIsFixed == At("creating") => review \subseteq Safe(memory)

(* On the custom screen every selected component is in a category, where   *)
(* it can be taken out.                                                    *)
SelectionIsListed == At("custom") => selected \subseteq Present(memory)
=============================================================================
