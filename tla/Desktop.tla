------------------------------- MODULE Desktop ------------------------------
(***************************************************************************)
(* The desktop control surface: the commands of src-tauri (commands.rs,    *)
(* events.rs) with their registry of cancellable runs and their store of   *)
(* dialog selections, and the state of the user interface                  *)
(* (ui/src/lib/state.svelte.ts).  Commands, background jobs, events and    *)
(* polling interleave; every await of the interface is a point where other *)
(* things happen.  The commands are compiled but not registered in the     *)
(* released shell (lib.rs).                                                *)
(*                                                                         *)
(* Run identities grow with time, as UUIDv7 does.  A job attempt is known  *)
(* by its cancellation token.                                              *)
(***************************************************************************)
EXTENDS Naturals, Sequences, FiniteSets, FiniteSetsExt, Functions

CONSTANTS
    MaxRuns,        \* runs that are started
    MaxTokens,      \* tokens handed out: attempts of jobs
    MaxRetained,    \* MAX_RETAINED_RUNS
    MaxPicks,       \* dialogs answered
    MaxSelections,  \* MAX_RETAINED_SELECTIONS
    MaxPolls,       \* polls before the interface gives up
    MaxClicks       \* clicks on start, resume and cancel

VARIABLES
    runs, tokens,   \* how many were handed out
    active,         \* run -> token, for registered runs
    retained,       \* run -> lifecycle status
    cancelled,      \* tokens that were cancelled
    job,            \* token -> [run, kind, at, end]
    stored,         \* scan of the stored inventory; 0: none
    reports,        \* run -> token of the attempt that wrote the stored report
    events,         \* events on their way to the interface
    claimed,        \* runs whose cancellation was accepted, with the token meant
    picks,          \* selection id -> kind picked, in order
    entries,        \* selection ids the store still has
    written,        \* selection ids used as a destination
    ui,             \* [screen, busy, run, last, error, report, scanGen, restoreGen]
    calls,          \* continuations of the interface that wait for a reply
    polls,          \* polling loops
    clicks

backVars == <<runs, tokens, active, retained, cancelled, job, stored, reports, claimed>>
pickVars == <<picks, entries, written>>
deskVars == <<backVars, events, pickVars, ui, calls, polls, clicks>>

Terminal == {"Completed", "Failed", "Cancelled"}
NoReport == [run |-> 0, token |-> 0]

DeskInit ==
    /\ runs = 0 /\ tokens = 0 /\ active = <<>> /\ retained = <<>> /\ cancelled = {}
    /\ job = <<>> /\ stored = 0 /\ reports = <<>> /\ claimed = {}
    /\ events = <<>> /\ picks = <<>> /\ entries = {} /\ written = {}
    /\ ui = [screen |-> "home", busy |-> FALSE, run |-> 0, last |-> 0, error |-> FALSE,
             report |-> NoReport, scanGen |-> 0, restoreGen |-> 0]
    /\ calls = {} /\ polls = {} /\ clicks = 0

(***************************************************************************)
(* RunRegistry                                                             *)
(***************************************************************************)
(* BTreeMap::insert                                                        *)
Put(map, x, v) == [y \in DOMAIN map \cup {x} |-> IF y = x THEN v ELSE map[y]]

(* retain: over the limit the smallest identity goes, whatever its status. *)
Retain(ret, r, status) ==
    LET all == Put(ret, r, status)
    IN IF Cardinality(DOMAIN all) > MaxRetained
       THEN Restrict(all, DOMAIN all \ {Min(DOMAIN all)}) ELSE all

(* register: the token is in place even when the run was active already.   *)
Register(r, t) ==
    /\ active' = Put(active, r, t)
    /\ retained' = IF r \in DOMAIN active THEN retained ELSE Retain(retained, r, "Starting")

NewJob(r, t, kind) == [run |-> r, kind |-> kind, at |-> "spawned", end |-> "none"]

(***************************************************************************)
(* Commands.  The reply travels to the continuation of the interface.      *)
(***************************************************************************)
Reply(kind, r, ok, gen) == [kind |-> kind, run |-> r, ok |-> ok, gen |-> gen]

(* startScan, beginRestore: start_scan and start_restore take a new run.   *)
(* Their buttons are disabled while the interface is busy.                 *)
StartNew(kind) ==
    /\ ~ui.busy /\ clicks < MaxClicks /\ clicks' = clicks + 1
    /\ runs < MaxRuns /\ tokens < MaxTokens
    /\ runs' = runs + 1 /\ tokens' = tokens + 1
    /\ Register(runs', tokens')
    /\ job' = Put(job, tokens', NewJob(runs', tokens', kind))
    /\ ui' = [ui EXCEPT !.busy = TRUE, !.error = FALSE,
                        !.screen = IF kind = "scan" THEN "scan_progress" ELSE "restore_progress",
                        !.scanGen = IF kind = "scan" THEN @ + 1 ELSE @,
                        !.restoreGen = IF kind = "scan" THEN @ ELSE @ + 1]
    /\ calls' = calls \cup {Reply(kind, runs', TRUE,
                                  IF kind = "scan" THEN ui'.scanGen ELSE ui'.restoreGen)}
    /\ UNCHANGED <<cancelled, stored, reports, claimed, events, pickVars, polls>>

(* resumeLatestRun: resume_restore names the run; a run that is active is  *)
(* an error.                                                               *)
ResumeLatest ==
    /\ ~ui.busy /\ clicks < MaxClicks /\ clicks' = clicks + 1
    /\ ui.last # 0 /\ tokens < MaxTokens
    /\ LET r == ui.last
           fresh == r \notin DOMAIN active
       IN /\ tokens' = tokens + 1
          /\ Register(r, tokens')
          /\ job' = IF fresh THEN Put(job, tokens', NewJob(r, tokens', "resume")) ELSE job
          /\ ui' = [ui EXCEPT !.busy = TRUE, !.error = FALSE, !.screen = "restore_progress",
                              !.restoreGen = @ + 1]
          /\ calls' = calls \cup {Reply("resume", r, fresh, ui'.restoreGen)}
    /\ UNCHANGED <<runs, cancelled, stored, reports, claimed, events, pickVars, polls>>

(* cancelCurrentRun stops the polling, then cancel_run cancels the token   *)
(* the registry has for the run.                                           *)
CancelCurrent ==
    /\ clicks < MaxClicks /\ clicks' = clicks + 1
    /\ ui.run # 0
    /\ ui' = [ui EXCEPT !.scanGen = @ + 1, !.restoreGen = @ + 1]
    /\ cancelled' = IF ui.run \in DOMAIN active THEN cancelled \cup {active[ui.run]} ELSE cancelled
    /\ claimed' = claimed \cup
         {t \in DOMAIN job : ui.run \in DOMAIN active /\ job[t].run = ui.run /\ job[t].at = "running"}
    /\ calls' = calls \cup {Reply("cancel", ui.run, TRUE, 0)}
    /\ UNCHANGED <<runs, tokens, active, retained, job, stored, reports, events, pickVars, polls>>

(***************************************************************************)
(* Jobs: the spawned tasks of start_scan, spawn_restore and spawn_resume   *)
(***************************************************************************)
Live(t) == job[t].at # "gone"
Emit(kind, r, t) == events' = Append(events, [kind |-> kind, run |-> r, token |-> t])

JobStarts(t) ==
    /\ job[t].at = "spawned"
    /\ retained' = Retain(retained, job[t].run, "Running")
    /\ job' = [job EXCEPT ![t].at = "running"]
    /\ UNCHANGED <<runs, tokens, active, cancelled, stored, reports, claimed, events, pickVars,
                   ui, calls, polls, clicks>>

(* The service ends: a scan stores its inventory, a restore its report.    *)
(* Resuming what is no approved restore fails.                             *)
JobEnds(t, end) ==
    /\ job[t].at = "running"
    /\ end = "Completed" =>
         \/ job[t].kind # "resume"
         \/ \E u \in DOMAIN job : u # t /\ job[u].run = job[t].run /\ job[u].kind = "restore"
    /\ end = "Cancelled" => t \in cancelled
    /\ job' = [job EXCEPT ![t].at = "ended", ![t].end = end]
    /\ stored' = IF end = "Completed" /\ job[t].kind = "scan" THEN job[t].run ELSE stored
    /\ reports' = IF end = "Completed" /\ job[t].kind # "scan"
                  THEN Put(reports, job[t].run, t) ELSE reports
    /\ IF end = "Completed"
       THEN IF job[t].kind = "scan" THEN UNCHANGED events ELSE Emit("report", job[t].run, t)
       ELSE Emit("error", job[t].run, t)
    /\ UNCHANGED <<runs, tokens, active, retained, cancelled, claimed, pickVars, ui, calls, polls, clicks>>

(* Faulty variant: a failed job stays registered.                          *)
JobUnregistersDone(t) ==
    /\ job[t].at = "ended"
    /\ active' = IF job[t].end # "Completed" THEN active
                 ELSE Restrict(active, DOMAIN active \ {job[t].run})
    /\ job' = [job EXCEPT ![t].at = "retaining"]
    /\ UNCHANGED <<runs, tokens, retained, cancelled, stored, reports, claimed, events, pickVars,
                   ui, calls, polls, clicks>>

(* finish: first the run leaves the active ones, then its status is kept.  *)
JobUnregisters(t) ==
    /\ job[t].at = "ended"
    /\ active' = Restrict(active, DOMAIN active \ {job[t].run})
    /\ job' = [job EXCEPT ![t].at = "retaining"]
    /\ UNCHANGED <<runs, tokens, retained, cancelled, stored, reports, claimed, events, pickVars,
                   ui, calls, polls, clicks>>

(* Faulty variant: only errors are kept.                                   *)
JobRetainsErrors(t) ==
    /\ job[t].at = "retaining"
    /\ retained' = IF job[t].end = "Completed" THEN retained
                   ELSE Retain(retained, job[t].run, job[t].end)
    /\ job' = [job EXCEPT ![t].at = "gone"]
    /\ UNCHANGED <<runs, tokens, active, cancelled, stored, reports, claimed, events, pickVars,
                   ui, calls, polls, clicks>>

JobRetains(t) ==
    /\ job[t].at = "retaining"
    /\ retained' = Retain(retained, job[t].run, job[t].end)
    /\ job' = [job EXCEPT ![t].at = "gone"]
    /\ UNCHANGED <<runs, tokens, active, cancelled, stored, reports, claimed, events, pickVars,
                   ui, calls, polls, clicks>>

(***************************************************************************)
(* The interface                                                           *)
(***************************************************************************)
(* A reply resumes its continuation; polling starts with the generation of *)
(* the click.                                                              *)
Continue(c) ==
    /\ c \in calls /\ calls' = calls \ {c}
    /\ CASE c.kind = "cancel" -> ui' = [ui EXCEPT !.busy = FALSE] /\ UNCHANGED polls
         [] c.kind # "cancel" /\ ~c.ok ->
              ui' = [ui EXCEPT !.error = TRUE, !.busy = FALSE] /\ UNCHANGED polls
         [] OTHER ->
              /\ ui' = [ui EXCEPT !.run = c.run, !.last = IF c.kind = "resume" THEN @ ELSE c.run]
              /\ polls' = polls \cup {[kind |-> IF c.kind = "scan" THEN "inventory" ELSE "run",
                                       run |-> c.run, gen |-> c.gen, left |-> MaxPolls,
                                       at |-> "loop", saw |-> NoReport, status |-> "none"]}
    /\ UNCHANGED <<backVars, events, pickVars, clicks>>

Gen(p) == IF p.kind = "inventory" THEN ui.scanGen ELSE ui.restoreGen

(* A poll asks get_inventory or get_run, and waits for the reply.          *)
PollAsks(p) ==
    /\ p \in polls /\ p.at = "loop" /\ p.gen = Gen(p) /\ p.left > 0
    /\ polls' = (polls \ {p}) \cup {[p EXCEPT !.at = "reply", !.left = @ - 1,
         !.saw = IF p.kind = "inventory" THEN [run |-> stored, token |-> 0]
                 ELSE IF p.run \in DOMAIN reports THEN [run |-> p.run, token |-> reports[p.run]]
                 ELSE NoReport,
         !.status = IF p.run \in DOMAIN retained THEN retained[p.run] ELSE "none"]}
    /\ UNCHANGED <<backVars, events, pickVars, ui, calls, clicks>>

(* Faulty variant: a run that failed ends the polling and nothing else.    *)
PollReadsQuietly(p) ==
    /\ p \in polls /\ p.at = "reply"
    /\ IF p.saw.run = p.run
       THEN /\ polls' = polls \ {p}
            /\ ui' = [ui EXCEPT !.busy = FALSE, !.report = IF p.kind = "run" THEN p.saw ELSE @,
                                !.screen = IF p.kind = "run" THEN "verification" ELSE "scan_results"]
       ELSE IF p.kind = "run" /\ p.status \in {"Failed", "Cancelled"}
       THEN polls' = polls \ {p} /\ ui' = ui
       ELSE polls' = (polls \ {p}) \cup {[p EXCEPT !.at = "loop"]} /\ ui' = ui
    /\ UNCHANGED <<backVars, events, pickVars, calls, clicks>>

(* pollInventory, pollRun: the reply is used whatever has happened since.  *)
PollReads(p) ==
    /\ p \in polls /\ p.at = "reply"
    /\ IF p.saw.run = p.run
       THEN /\ polls' = polls \ {p}
            /\ ui' = [ui EXCEPT !.busy = FALSE, !.report = IF p.kind = "run" THEN p.saw ELSE @,
                                !.screen = IF p.kind = "run" THEN "verification" ELSE "scan_results"]
       ELSE IF p.kind = "run" /\ p.status \in {"Failed", "Cancelled"}
       THEN polls' = polls \ {p} /\ ui' = [ui EXCEPT !.busy = FALSE, !.error = TRUE]
       ELSE polls' = (polls \ {p}) \cup {[p EXCEPT !.at = "loop"]} /\ ui' = ui
    /\ UNCHANGED <<backVars, events, pickVars, calls, clicks>>

(* An older generation ends silently, a deadline with an error.            *)
PollEnds(p) ==
    /\ p \in polls /\ p.at = "loop" /\ (p.gen # Gen(p) \/ p.left = 0)
    /\ polls' = polls \ {p}
    /\ ui' = IF p.gen = Gen(p) THEN [ui EXCEPT !.busy = FALSE, !.error = TRUE] ELSE ui
    /\ UNCHANGED <<backVars, events, pickVars, calls, clicks>>

(* handleReport and handleBackendError ignore other runs; before the first *)
(* run is known, any error counts.                                         *)
Receive ==
    /\ events # <<>> /\ events' = Tail(events)
    /\ LET e == Head(events)
       IN ui' = IF e.kind = "report" /\ ui.run = e.run
                THEN [ui EXCEPT !.report = [run |-> e.run, token |-> e.token], !.busy = FALSE,
                                !.screen = "verification"]
                ELSE IF e.kind = "error" /\ ui.run \in {0, e.run}
                THEN [ui EXCEPT !.error = TRUE, !.busy = FALSE] ELSE ui
    /\ UNCHANGED <<backVars, pickVars, calls, polls, clicks>>

(***************************************************************************)
(* Native dialogs                                                          *)
(***************************************************************************)
Kinds == {"PackageInput", "PackageOutput", "ReportOutput"}

(* select_package_file, select_package_destination and                     *)
(* select_report_destination: the path stays in the store; over the limit  *)
(* the oldest selection goes.                                              *)
Pick(kind) ==
    /\ Len(picks) < MaxPicks
    /\ picks' = Append(picks, kind)
    /\ LET all == entries \cup {Len(picks')}
       IN entries' = IF Cardinality(all) > MaxSelections THEN all \ {Min(all)} ELSE all
    /\ UNCHANGED <<backVars, events, written, ui, calls, polls, clicks>>

(* Faulty variant: any selection will do.                                  *)
ResolveAny(id, kind) == id \in entries

Resolve(id, kind) == id \in entries /\ picks[id] = kind

(* create_package and save_report write where the selection leads.         *)
WriteTo(id, kind) ==
    /\ Resolve(id, kind)
    /\ written' = written \cup {[id |-> id, kind |-> kind]}
    /\ UNCHANGED <<backVars, events, picks, entries, ui, calls, polls, clicks>>

Poll(p) == PollAsks(p) \/ PollReads(p) \/ PollEnds(p)

DeskNext ==
    \/ \E kind \in {"scan", "restore"} : StartNew(kind)
    \/ ResumeLatest \/ CancelCurrent \/ Receive
    \/ \E t \in DOMAIN job :
          \/ JobStarts(t) \/ JobUnregisters(t) \/ JobRetains(t)
          \/ \E end \in Terminal : JobEnds(t, end)
    \/ \E c \in calls : Continue(c)
    \/ \E p \in polls : Poll(p)
    \/ \E kind \in Kinds : Pick(kind)
    \/ \E id \in DOMAIN picks, kind \in {"PackageOutput", "ReportOutput"} : WriteTo(id, kind)

DeskSpec == DeskInit /\ [][DeskNext]_deskVars

(***************************************************************************)
(* Properties                                                              *)
(***************************************************************************)
(* Only a run with a live job is registered, so that a run can be resumed  *)
(* again after its job ended (RunRegistry.finish).                         *)
ActiveIsAlive == \A r \in DOMAIN active : \E t \in DOMAIN job : job[t].run = r /\ Live(t)

(* Once no job of a run is live, what is kept of it is how a job ended     *)
(* (finish, retain).                                                       *)
EndedIsTerminal ==
    \A r \in DOMAIN retained :
        (\A t \in DOMAIN job : job[t].run = r => ~Live(t)) => retained[r] \in Terminal

(* A destination is written only if the user picked it for this very use.  *)
DestinationsArePicked == \A w \in written : picks[w.id] = w.kind

(***************************************************************************)
(* Said by the code or its documents, and not kept (see the README)        *)
(***************************************************************************)
(* When the interface says that a cancellation was accepted, the running   *)
(* job has its token cancelled (cancel_run).                               *)
CancelReachesJob == claimed \subseteq cancelled

(* The run the interface offers to resume is a restore (resumeLatestRun).  *)
LastIsRestore ==
    ui.last # 0 => \E t \in DOMAIN job : job[t].run = ui.last /\ job[t].kind # "scan"
=============================================================================
