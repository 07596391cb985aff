----------------------------- MODULE RunService -----------------------------
(***************************************************************************)
(* The commands of reforge-cli (main.rs) that carry a restore run from the *)
(* preview to the report, and the state they leave between one process and *)
(* the next: the journal's rows, the run state file, the report file.  A   *)
(* command is a sequence of steps, each of which makes at most one durable *)
(* change; its process may be killed between two of them.  Meanwhile the   *)
(* package file may be replaced and the target may change.                 *)
(*                                                                         *)
(* A package is known by its version, 0 when the file is missing.  The     *)
(* executor is modelled by what it may leave behind (module Executor has   *)
(* its detail); verification by its verdict (module VerificationReport).   *)
(***************************************************************************)
EXTENDS Naturals, FiniteSets

CONSTANTS
    Procs,          \* processes of the program
    Runs,           \* run identities
    Versions,       \* versions of the package file
    PlanActions,    \* version -> manual actions its plan contains
    MaxCommands,    \* bound on the commands given
    MaxEvents       \* bound on the changes from outside

VARIABLES
    proc,       \* process -> the command it executes
    package,    \* version of the package file
    target,     \* runs whose changes are in place on the machine
    journal,    \* run -> [version, approved, status]
    actions,    \* run -> manual action -> "absent", "pending" or "acknowledged"
    runFile,    \* run -> [version, trust]; version 0: no file
    report,     \* run -> the stored report
    applied,    \* <<run, version>>: contents an executor put on the target
    consented,  \* runs whose execution the user asked for
    exits,      \* [run, zero]: results of executing commands
    commands, events

runVars == <<proc, package, target, journal, actions, runFile, report, applied, consented,
             exits, commands, events>>

ActionIds == UNION {PlanActions[v] : v \in Versions} \cup {"blocker"}
NoRow == [version |-> 0, approved |-> FALSE, status |-> "none"]
NoFile == [version |-> 0, trust |-> "none"]
Idle == [cmd |-> "none", run |-> "none", at |-> "idle", pkg |-> 0, plan |-> 0,
         seen |-> {}, failed |-> FALSE, cancelled |-> FALSE]

ServiceInit ==
    /\ proc = [p \in Procs |-> Idle]
    /\ package \in Versions /\ target = {}
    /\ journal = [r \in Runs |-> NoRow]
    /\ actions = [r \in Runs |-> [a \in ActionIds |-> "absent"]]
    /\ runFile = [r \in Runs |-> NoFile]
    /\ report = [r \in Runs |-> "none"]
    /\ applied = {} /\ consented = {} /\ exits = {}
    /\ commands = 0 /\ events = 0

To(p, at) == proc' = [proc EXCEPT ![p].at = at]
End(p) == proc' = [proc EXCEPT ![p] = Idle]
Run(p) == proc[p].run
At(p, cmd, at) == proc[p].at = at /\ proc[p].cmd \in cmd
Executing == {"restore", "planned", "resume"}

(***************************************************************************)
(* dispatch: which command, and the first step of each                     *)
(***************************************************************************)
FirstStep(cmd) ==
    CASE cmd \in {"plan", "restore"} -> "inspect"
      [] cmd = "report" -> "fetch"
      [] OTHER -> "load"

(* A new run has a fresh identity; the other commands name one.  The user  *)
(* consents with --yes-safe, or by accepting the preview.                  *)
Dispatch(p, cmd, r) ==
    /\ proc[p].at = "idle" /\ commands < MaxCommands
    /\ cmd \in {"plan", "restore"} =>
        journal[r] = NoRow /\ \A q \in Procs : proc[q].run # r
    /\ commands' = commands + 1
    /\ consented' = IF cmd \in {"restore", "planned"} THEN consented \cup {r} ELSE consented
    /\ proc' = [proc EXCEPT ![p] = [Idle EXCEPT !.cmd = cmd, !.run = r, !.at = FirstStep(cmd)]]
    /\ UNCHANGED <<package, target, journal, actions, runFile, report, applied, exits, events>>

(* Restore without --yes-safe, and a package that is missing or cannot be  *)
(* approved, end before anything is stored.                                *)
Refuse(p) ==
    /\ proc[p].at = "inspect"
    /\ End(p)
    /\ UNCHANGED <<package, target, journal, actions, runFile, report, applied, consented,
                   exits, commands, events>>

(* plan_command, build_plan, restore_command, start_restore                *)
Inspect(p) ==
    /\ proc[p].at = "inspect" /\ package # 0
    /\ proc' = [proc EXCEPT ![p].pkg = package, ![p].plan = package, ![p].at = "scan"]
    /\ UNCHANGED <<package, target, journal, actions, runFile, report, applied, consented,
                   exits, commands, events>>

(* validate_run_package: the digests of the package are the ones stored.   *)
ValidRunPackage(r) ==
    /\ runFile[r].version = package
    /\ runFile[r].trust = "UserApproved"

(* Faulty variant: the stored digests are not compared.                    *)
LoadUnchecked(p) ==
    /\ proc[p].at = "load"
    /\ IF runFile[Run(p)] = NoFile \/ package = 0 THEN End(p)
       ELSE proc' = [proc EXCEPT ![p].pkg = package, ![p].plan = runFile[Run(p)].version,
                                 ![p].at = IF proc[p].cmd = "planned" THEN "approve" ELSE "scan"]
    /\ UNCHANGED <<package, target, journal, actions, runFile, report, applied, consented,
                   exits, commands, events>>

(* resume, planned restore and verify read the run state file and open the *)
(* package again.                                                          *)
Load(p) ==
    /\ proc[p].at = "load"
    /\ IF runFile[Run(p)] = NoFile \/ package = 0 \/ ~ValidRunPackage(Run(p)) THEN End(p)
       ELSE proc' = [proc EXCEPT ![p].pkg = package, ![p].plan = runFile[Run(p)].version,
                                 ![p].at = IF proc[p].cmd = "planned" THEN "approve" ELSE "scan"]
    /\ UNCHANGED <<package, target, journal, actions, runFile, report, applied, consented,
                   exits, commands, events>>

(* discover_target; the scan may fail or be cancelled.                     *)
Scan(p) ==
    /\ proc[p].at = "scan"
    /\ \/ End(p)
       \/ proc' = [proc EXCEPT ![p].seen = target,
                               ![p].at = CASE proc[p].cmd \in {"plan", "restore"} -> "create"
                                           [] proc[p].cmd = "planned" -> "execute"
                                           [] proc[p].cmd = "resume" -> "require"
                                           [] OTHER -> "report"]
    /\ UNCHANGED <<package, target, journal, actions, runFile, report, applied, consented,
                   exits, commands, events>>

(* Journal.create_run stores the run and its planned actions at once.      *)
CreateRun(p) ==
    /\ proc[p].at = "create"
    /\ journal' = [journal EXCEPT ![Run(p)] =
                     [version |-> proc[p].plan, approved |-> FALSE, status |-> "ready"]]
    /\ actions' = [actions EXCEPT ![Run(p)] = [a \in ActionIds |->
                     IF a \in PlanActions[proc[p].plan] THEN "pending" ELSE "absent"]]
    /\ To(p, IF proc[p].cmd = "restore" THEN "approve" ELSE "save")
    /\ UNCHANGED <<package, target, runFile, report, applied, consented, exits, commands, events>>

ApproveRun(p) ==
    /\ proc[p].at = "approve"
    /\ journal' = [journal EXCEPT ![Run(p)].approved = TRUE]
    /\ To(p, IF proc[p].cmd = "planned" THEN "scan" ELSE "save")
    /\ UNCHANGED <<package, target, actions, runFile, report, applied, consented, exits,
                   commands, events>>

(* Faulty variant: the file is left for the end of the command.            *)
SaveRunStateLater(p) ==
    /\ proc[p].at = "save"
    /\ IF proc[p].cmd = "plan"
       THEN /\ runFile' = [runFile EXCEPT ![Run(p)] =
                             [version |-> proc[p].plan, trust |-> "UserApproved"]]
            /\ End(p)
       ELSE To(p, "execute") /\ UNCHANGED runFile
    /\ UNCHANGED <<package, target, journal, actions, report, applied, consented, exits,
                   commands, events>>

(* make_run_state, write_json_state: a whole file or none.                 *)
SaveRunState(p) ==
    /\ proc[p].at = "save"
    /\ runFile' = [runFile EXCEPT ![Run(p)] =
                     [version |-> proc[p].plan, trust |-> "UserApproved"]]
    /\ IF proc[p].cmd = "plan" THEN End(p) ELSE To(p, "execute")
    /\ UNCHANGED <<package, target, journal, actions, report, applied, consented, exits,
                   commands, events>>

RequireApproved(p) ==
    /\ proc[p].at = "require"
    /\ IF journal[Run(p)].approved THEN To(p, "execute") ELSE End(p)
    /\ UNCHANGED <<package, target, journal, actions, runFile, report, applied, consented,
                   exits, commands, events>>

(***************************************************************************)
(* execute_to_report                                                       *)
(***************************************************************************)
Pending(r) == \E a \in ActionIds : actions[r][a] = "pending"

(* What the executor reads comes from the package file of this moment and  *)
(* is verified against the index that was loaded.                          *)
Readable(p) == package = proc[p].pkg
Effect(p) ==
    /\ applied' = applied \cup {<<Run(p), proc[p].pkg>>}
    /\ target' = target \cup {Run(p)}

(* The executor refuses, or reports an error that ends the command.        *)
ExecuteRefused(p) ==
    /\ proc[p].at = "execute" /\ End(p)
    /\ UNCHANGED <<package, target, journal, actions, runFile, report, applied, consented,
                   exits, commands, events>>

(* It stops early: some changes may be in place, a new action may wait.    *)
ExecutePartly(p) ==
    LET r == Run(p) IN
    /\ proc[p].at = "execute" /\ journal[r].status # "complete"
    /\ journal' = [journal EXCEPT ![r].status = "partial"]
    /\ \/ Readable(p) /\ Effect(p) /\ UNCHANGED actions
       \/ UNCHANGED <<applied, target, actions>>
       \/ /\ actions[r]["blocker"] = "absent" /\ UNCHANGED <<applied, target>>
          /\ actions' = [actions EXCEPT ![r]["blocker"] = "pending"]
    /\ \E c \in BOOLEAN :
         proc' = [proc EXCEPT ![p].at = "rescan", ![p].failed = TRUE, ![p].cancelled = c]
    /\ UNCHANGED <<package, runFile, report, consented, exits, commands, events>>

(* It ends: everything is done that no open action stands for.             *)
ExecuteAll(p) ==
    LET r == Run(p) IN
    /\ proc[p].at = "execute"
    /\ \/ journal[r].status = "complete" /\ UNCHANGED <<applied, target, journal>>
       \/ /\ journal[r].status # "complete" /\ Readable(p) /\ Effect(p)
          /\ journal' = [journal EXCEPT ![r].status = IF Pending(r) THEN "partial" ELSE "complete"]
    /\ To(p, "rescan")
    /\ UNCHANGED <<package, actions, runFile, report, consented, exits, commands, events>>

(* The target is scanned again unless the run was cancelled; the scan may  *)
(* fail, which ends the command without a report.                          *)
Rescan(p) ==
    /\ proc[p].at = "rescan"
    /\ \/ proc[p].cancelled /\ To(p, "report")
       \/ ~proc[p].cancelled /\ proc' = [proc EXCEPT ![p].seen = target, ![p].at = "report"]
       \/ ~proc[p].cancelled /\ End(p)
    /\ UNCHANGED <<package, target, journal, actions, runFile, report, applied, consented,
                   exits, commands, events>>

(* materialize_manual_actions: every planned action is in the journal.     *)
ManualActions(p) ==
    \A a \in PlanActions[proc[p].plan] : actions[Run(p)][a] # "absent"

(* Faulty variant: what the target shows is enough.                        *)
VerdictOfTarget(p) ==
    IF Pending(Run(p)) THEN "waiting"
    ELSE IF Run(p) \in proc[p].seen THEN "verified" ELSE "partial"

(* build_report: the journal's rows and the facts of the last scan.        *)
Verdict(p) ==
    IF Pending(Run(p)) THEN "waiting"
    ELSE IF journal[Run(p)].status = "complete" /\ Run(p) \in proc[p].seen
    THEN "verified" ELSE "partial"

(* Faulty variant: the report alone decides.                               *)
ExitZeroByReport(p) == Verdict(p) = "verified"

(* report_exit_code, and the executor's error when the report is clean.    *)
ExitZero(p) == Verdict(p) = "verified" /\ ~proc[p].failed

WriteReport(p) ==
    /\ proc[p].at = "report"
    /\ IF ManualActions(p)
       THEN /\ report' = [report EXCEPT ![Run(p)] = Verdict(p)]
            /\ exits' = exits \cup {[run |-> Run(p), zero |-> ExitZero(p),
                                     failed |-> proc[p].failed]}
       ELSE UNCHANGED <<report, exits>>
    /\ End(p)
    /\ UNCHANGED <<package, target, journal, actions, runFile, applied, consented, commands,
                   events>>

(* report_command: the stored report, or a new one when there is none.     *)
FetchReport(p) ==
    /\ proc[p].at = "fetch"
    /\ IF report[Run(p)] # "none" THEN End(p) ELSE To(p, "load")
    /\ UNCHANGED <<package, target, journal, actions, runFile, report, applied, consented,
                   exits, commands, events>>

(* action acknowledge                                                      *)
AcknowledgeAction(r, a) ==
    /\ actions[r][a] = "pending"
    /\ actions' = [actions EXCEPT ![r][a] = "acknowledged"]
    /\ UNCHANGED <<proc, package, target, journal, runFile, report, applied, consented,
                   exits, commands, events>>

(***************************************************************************)
(* Outside events                                                          *)
(***************************************************************************)
Crash(p) ==
    /\ proc[p].at # "idle" /\ events < MaxEvents
    /\ events' = events + 1 /\ End(p)
    /\ UNCHANGED <<package, target, journal, actions, runFile, report, applied, consented,
                   exits, commands>>

ReplacePackage(v) ==
    /\ v # package /\ events < MaxEvents
    /\ events' = events + 1 /\ package' = v
    /\ UNCHANGED <<proc, target, journal, actions, runFile, report, applied, consented,
                   exits, commands>>

Undo(r) ==
    /\ r \in target /\ events < MaxEvents
    /\ events' = events + 1 /\ target' = target \ {r}
    /\ UNCHANGED <<proc, package, journal, actions, runFile, report, applied, consented,
                   exits, commands>>

Quiet == (\A p \in Procs : proc[p].at = "idle") /\ commands = MaxCommands /\ UNCHANGED runVars

ServiceNext ==
    \/ \E p \in Procs :
        \/ \E r \in Runs, c \in {"plan", "verify", "report"} \cup Executing : Dispatch(p, c, r)
        \/ Refuse(p) \/ Inspect(p) \/ Load(p) \/ Scan(p) \/ CreateRun(p) \/ ApproveRun(p)
        \/ SaveRunState(p) \/ RequireApproved(p)
        \/ ExecuteRefused(p) \/ ExecutePartly(p) \/ ExecuteAll(p)
        \/ Rescan(p) \/ WriteReport(p) \/ FetchReport(p) \/ Crash(p)
    \/ \E r \in Runs, a \in ActionIds : AcknowledgeAction(r, a)
    \/ \E v \in Versions \cup {0} : ReplacePackage(v)
    \/ \E r \in Runs : Undo(r)
    \/ Quiet

ServiceSpec == ServiceInit /\ [][ServiceNext]_runVars

(***************************************************************************)
(* Properties                                                              *)
(***************************************************************************)
(* What a run put on the target is the content of the package the user saw *)
(* when the run was planned, and the user asked for this run, whatever was *)
(* done to the package file and whichever command executed it.             *)
AppliedIsApproved ==
    \A x \in applied :
        /\ journal[x[1]].version = x[2] /\ journal[x[1]].approved
        /\ x[1] \in consented

(* A run that changed the target can be taken up again: the file that      *)
(* `resume` needs was written before the first change.                     *)
EffectsAreResumable ==
    \A x \in applied : runFile[x[1]] = [version |-> x[2], trust |-> "UserApproved"]

(* A stored report that says "verified" belongs to a run whose journal is  *)
(* complete and whose changes were made, and an exit code of zero says the *)
(* same and that the executor had no error to report.                      *)
ReportIsEarned ==
    \A r \in Runs : report[r] = "verified" =>
        journal[r].status = "complete" /\ \E x \in applied : x[1] = r
ExitZeroIsEarned ==
    \A x \in exits : x.zero => journal[x.run].status = "complete" /\ ~x.failed

(***************************************************************************)
(* Said by the code or its documents, and not kept (see the README)        *)
(***************************************************************************)
(* docs/support-matrix.md: "Resume pending restore continues approved runs *)
(* after a reboot or interruption": a run that is approved, and that no    *)
(* process is about to save, has its run state file.                       *)
ApprovedRunsResume ==
    \A r \in Runs :
        journal[r].approved /\ (\A p \in Procs : proc[p].run # r) => runFile[r] # NoFile
=============================================================================
