---------------------------- MODULE MCProgress -----------------------------
(***************************************************************************)
(* What must eventually happen: scans, commands, requests and handlers     *)
(* that end.  Fair are the tasks and threads of the program, which its     *)
(* runtime and the system schedule, its clock, and a user who answers,     *)
(* restarts and resumes; what another process owes is a premise of the     *)
(* property that needs it.  A behaviour is one part at work, on an         *)
(* instance that is small enough for liveness checking.                    *)
(***************************************************************************)
EXTENDS Naturals, FiniteSets, Sequences, TLC

VARIABLES part,
    entries, mode, phase, todo, attempted, succeeded, completed, queue,
    useful, ledger, warnings, omitted, found, events, cancelled, inventory,
    manager, resume, pc, capacity, records, observations, errors, changes,
    stable, folders, stack, spec, observed, child, heir, pipe, written, kept,
    reader, total, failure, cancel, late, answer, broker, outcome, helper,
    client, frame, reply, approved, state, retries, unreadable, openAtCall,
    runs, tokens, active, retained, job, stored, reports, claimed, picks, ui,
    calls, polls, clicks, req, machine, pending, facts, available, reboot,
    faults, pkg, files, proc, free, failures, crashes, object, temp, inode,
    receipts, dest, baks, litter, row, h, owned, edits, left

(* The adapter of the second phase answers, fails or hangs.                *)
DiAdapter(i, p, res, os) ==
    [id |-> i, phase |-> p, available |-> TRUE, evidence |-> <<>>, result |-> res, slow |-> TRUE,
     observations |-> os]
DiBad == [evidence |-> <<[id |-> 7, strength |-> 50, group |-> 1]>>, valid |-> FALSE, components |-> <<>>]
DiRegistries ==
    {<<DiAdapter(1, 1, "ok", <<DiBad, DiBad>>), DiAdapter(2, 2, r, <<>>)>> : r \in {"ok", "error", "hangs"}}

(* Up to three services; others are created during the scan.               *)
SvService(name, size, opens) == [name |-> name, size |-> size, opens |-> opens]
SvManagers ==
    {<<>>,
     <<SvService("b", 2, TRUE), SvService("a", 1, TRUE), SvService("c", 1, TRUE)>>}
SvNew == {SvService("d", 1, TRUE), SvService("e", 2, TRUE)}

TsFolder(tasks, subfolders) == [tasks |-> tasks, folders |-> subfolders]
TsHierarchies ==
    {"r" :> TsFolder(<<"t1">>, <<"f", "g">>) @@ "f" :> TsFolder(<<"t2">>, <<"h">>)
        @@ "g" :> TsFolder(<<"t3">>, <<>>) @@ "h" :> TsFolder(<<"t4">>, <<>>)}

PrSpecs == {[exe |-> "builtin", timeout |-> 1, limit |-> 2, args |-> 1, bytes |-> 1]}

(* Strays write a frame for another nonce, or none at all.                 *)
ElFrame(kind, r, o, n) == [kind |-> kind, run |-> r, op |-> o, nonce |-> n]
ElStray == {ElFrame("request", "r1", "o1", "n2"), ElFrame("garbage", "none", "none", "none")}
ElRequests == "n1" :> [run |-> "r1", op |-> "o1"]

PiRequest(provider, origin) ==
    [provider |-> provider, id |-> "p", shape |-> "plain", version |-> "1.1", source |-> origin,
     flags |-> {}, hash |-> FALSE, arch |-> TRUE, url |-> "public"]
PiRequests == {PiRequest(p, "reviewed") : p \in {"winget", "scoop", "rust"}} \cup {PiRequest("vscode", "none")}
PiEntry(id, version, origin) == [id |-> id, version |-> version, source |-> origin]
PiMachines == {{}, {PiEntry("p", "1.1", "custom")}, {PiEntry("p", "2.0", "reviewed"), PiEntry("q", "1.1", "none")},
               {PiEntry("p", "1.1", "reviewed")}}
PiExact == {<<w, w>> : w \in {"p", "q", "1.1", "2.0"}}

(* One archive of two chunks.                                              *)
StChunk(id, n) == [id |-> id, bytes |-> n]
StPackages ==
    LET m == <<"m">>
        ab == <<"a", "b">>
        a == <<"a">>
    IN {[object |-> m,
         index |-> <<[id |-> m, bytes |-> 9, type |-> "json"], [id |-> ab, bytes |-> 2, type |-> "archive"],
                     [id |-> a, bytes |-> 1, type |-> "archive"]>>,
         manifests |-> m :> [size |-> 3, type |-> "archive", canonical |-> TRUE,
                             chunks |-> <<StChunk(ab, 2), StChunk(a, 1)>>],
         source |-> [id \in {ab, a, m} |-> [bytes |-> id, ok |-> TRUE, same |-> TRUE]]]}

-----------------------------------------------------------------------------
Scan == INSTANCE Discovery
    WITH Registries <- DiRegistries, Phases <- 2, MaxFound <- 5, MaxEdges <- 3, MaxEvidence
         <- 4, MaxWarnings <- 3
Svc == INSTANCE ServiceScan
    WITH Managers <- SvManagers, NewServices <- SvNew, MaxServices <- 3,
         MaxBuffer <- 5, MaxChanges <- 2
Task == INSTANCE TaskScan
    WITH Hierarchies <- TsHierarchies, RootFolder <- "r", MaxTasks <- 3,
         MaxFolders <- 2, MaxTaskDepth <- 2
Proc == INSTANCE ProcessRunner
    WITH Specs <- PrSpecs, Registered <- {}, MaxTimeout <- 2, MaxLimit <- 3,
         MaxArgs <- 1, MaxArgBytes <- 1, Buffer <- 2, MaxWritten <- 2
Elev == INSTANCE Elevation
    WITH Requests <- ElRequests, Ops <- {"o1", "o2"}, Elevated <- {"o1"},
         Stray <- ElStray, JournalFile <- "journal.sqlite", HelperFile <-
         "journal.sqlite", MaxRetries <- 1
Desk == INSTANCE Desktop
    WITH MaxRuns <- 2, MaxTokens <- 2, MaxRetained <- 1, MaxPicks <- 0,
         MaxSelections <- 2, MaxPolls <- 1, MaxClicks <- 2
Install == INSTANCE PackageInstall
    WITH Requests <- PiRequests, Machines <- PiMachines, Contains <- PiExact,
         Refuses <- {"winget", "dotnet"}, MaxFaults <- 3
Staging == INSTANCE ArtifactStaging
    WITH Procs <- {"p"}, Bytes <- {"a", "b", "m"}, Packages <- StPackages,
         ChunkBytes <- 2, MaxBytes <- 3, Tries <- 2, Volumes <- {"c"}, TempVolume <- "c", FreeBytes <- {6},
         MaxNames <- 9, MaxStaged <- 1, MaxFailures <- 1, MaxCrashes <- 2
Store == INSTANCE PackageStore
    WITH Procs <- {"p"}, Pids <- {1, 2}, Files <- {<<1>>, <<1, 1, 1>>}, Chunk
         <- 2, MaxFile <- 3, MaxObject <- 2, Attempts <- 2, MaxCrashes <- 1,
         MaxFaults <- 1
File == INSTANCE FileReplace
    WITH Modes <- {"CREATE_ONLY"}, mode <- "CREATE_ONLY", Package <- {"pkg"}, Original <- {"orig"},
         Edits <- {"e1"}, MaxFaults <- 2, MaxEdits <- 2

(* One part is chosen and runs; the variables of the others are "off" and  *)
(* stay so.                                                                *)
OthersAreOff ==
    /\ IF part = "discovery" THEN TRUE
       ELSE /\ mode = "off" /\ phase = "off" /\ todo = "off"
            /\ attempted = "off" /\ succeeded = "off" /\ completed = "off"
            /\ queue = "off" /\ useful = "off" /\ ledger = "off"
            /\ warnings = "off" /\ omitted = "off" /\ found = "off"
            /\ inventory = "off"
    /\ IF part = "services" THEN TRUE
       ELSE /\ manager = "off" /\ resume = "off" /\ capacity = "off"
            /\ records = "off" /\ changes = "off" /\ stable = "off"
    /\ IF part = "tasks" THEN TRUE
       ELSE /\ folders = "off" /\ stack = "off"
    /\ IF part = "process" THEN TRUE
       ELSE /\ spec = "off" /\ observed = "off" /\ child = "off"
            /\ heir = "off" /\ pipe = "off" /\ kept = "off" /\ reader = "off"
            /\ total = "off" /\ failure = "off" /\ cancel = "off"
            /\ late = "off" /\ answer = "off"
    /\ IF part = "elevation" THEN TRUE
       ELSE /\ broker = "off" /\ helper = "off" /\ client = "off"
            /\ frame = "off" /\ reply = "off" /\ approved = "off"
            /\ state = "off" /\ retries = "off" /\ unreadable = "off"
            /\ openAtCall = "off"
    /\ IF part = "desktop" THEN TRUE
       ELSE /\ runs = "off" /\ tokens = "off" /\ active = "off"
            /\ retained = "off" /\ job = "off" /\ stored = "off"
            /\ reports = "off" /\ claimed = "off" /\ picks = "off"
            /\ ui = "off" /\ calls = "off" /\ polls = "off" /\ clicks = "off"
    /\ IF part = "install" THEN TRUE
       ELSE /\ req = "off" /\ machine = "off" /\ pending = "off"
            /\ facts = "off" /\ available = "off" /\ reboot = "off"
    /\ IF part = "staging" THEN TRUE
       ELSE /\ pkg = "off" /\ files = "off" /\ free = "off"
            /\ failures = "off"
    /\ IF part = "store" THEN TRUE
       ELSE /\ object = "off" /\ inode = "off" /\ receipts = "off"
            /\ left = "off"
    /\ IF part = "file" THEN TRUE
       ELSE /\ dest = "off" /\ baks = "off" /\ litter = "off" /\ row = "off"
            /\ h = "off" /\ owned = "off" /\ edits = "off"
    /\ IF part \in {"discovery", "desktop"} THEN TRUE
       ELSE /\ entries = "off" /\ events = "off" /\ cancelled = "off"
    /\ IF part \in {"services", "tasks", "process", "install"} THEN TRUE
       ELSE /\ pc = "off"
    /\ IF part \in {"services", "tasks"} THEN TRUE
       ELSE /\ observations = "off" /\ errors = "off"
    /\ IF part \in {"process", "desktop"} THEN TRUE
       ELSE /\ written = "off"
    /\ IF part \in {"elevation", "install"} THEN TRUE
       ELSE /\ outcome = "off"
    /\ IF part \in {"install", "store", "file"} THEN TRUE
       ELSE /\ faults = "off"
    /\ IF part \in {"staging", "store"} THEN TRUE
       ELSE /\ proc = "off" /\ crashes = "off"
    /\ IF part \in {"store", "file"} THEN TRUE
       ELSE /\ temp = "off"

OthersStay ==
    /\ UNCHANGED part
    /\ IF part = "discovery" THEN TRUE
       ELSE UNCHANGED <<mode, phase, todo, attempted, succeeded, completed,
                        queue, useful, ledger, warnings, omitted, found,
                        inventory>>
    /\ IF part = "services" THEN TRUE
       ELSE UNCHANGED <<manager, resume, capacity, records, changes, stable>>
    /\ IF part = "tasks" THEN TRUE
       ELSE UNCHANGED <<folders, stack>>
    /\ IF part = "process" THEN TRUE
       ELSE UNCHANGED <<spec, observed, child, heir, pipe, kept, reader, total,
                        failure, cancel, late, answer>>
    /\ IF part = "elevation" THEN TRUE
       ELSE UNCHANGED <<broker, helper, client, frame, reply, approved, state,
                        retries, unreadable, openAtCall>>
    /\ IF part = "desktop" THEN TRUE
       ELSE UNCHANGED <<runs, tokens, active, retained, job, stored, reports,
                        claimed, picks, ui, calls, polls, clicks>>
    /\ IF part = "install" THEN TRUE
       ELSE UNCHANGED <<req, machine, pending, facts, available, reboot>>
    /\ IF part = "staging" THEN TRUE
       ELSE UNCHANGED <<pkg, files, free, failures>>
    /\ IF part = "store" THEN TRUE
       ELSE UNCHANGED <<object, inode, receipts, left>>
    /\ IF part = "file" THEN TRUE
       ELSE UNCHANGED <<dest, baks, litter, row, h, owned, edits>>
    /\ IF part \in {"discovery", "desktop"} THEN TRUE
       ELSE UNCHANGED <<entries, events, cancelled>>
    /\ IF part \in {"services", "tasks", "process", "install"} THEN TRUE
       ELSE UNCHANGED <<pc>>
    /\ IF part \in {"services", "tasks"} THEN TRUE
       ELSE UNCHANGED <<observations, errors>>
    /\ IF part \in {"process", "desktop"} THEN TRUE
       ELSE UNCHANGED <<written>>
    /\ IF part \in {"elevation", "install"} THEN TRUE
       ELSE UNCHANGED <<outcome>>
    /\ IF part \in {"install", "store", "file"} THEN TRUE
       ELSE UNCHANGED <<faults>>
    /\ IF part \in {"staging", "store"} THEN TRUE
       ELSE UNCHANGED <<proc, crashes>>
    /\ IF part \in {"store", "file"} THEN TRUE
       ELSE UNCHANGED <<temp>>

MCInit ==
    /\ \/ part = "discovery" /\ Scan!ScanInit
       \/ part = "services" /\ Svc!SsInit
       \/ part = "tasks" /\ Task!TsInit
       \/ part = "process" /\ Proc!RunInit
       \/ part = "elevation" /\ Elev!ElevInit
       \/ part = "desktop" /\ Desk!DeskInit
       \/ part = "install" /\ Install!PiInit
       \/ part = "staging" /\ Staging!StInit
       \/ part = "store" /\ Store!StoreInit
       \/ part = "file" /\ File!Init
    /\ OthersAreOff

DiscoveryStep == part = "discovery" /\ Scan!ScanNext /\ OthersStay
ServiceStep == part = "services" /\ Svc!SsNext /\ OthersStay
TaskStep == part = "tasks" /\ Task!TsNext /\ OthersStay
ProcessStep == part = "process" /\ Proc!RunNext /\ OthersStay
ElevationStep == part = "elevation" /\ Elev!ElevNext /\ OthersStay
DesktopStep == part = "desktop" /\ Desk!DeskNext /\ OthersStay
InstallStep == part = "install" /\ Install!PiNext /\ OthersStay
StagingStep == part = "staging" /\ Staging!StNext /\ OthersStay
StoreStep == part = "store" /\ Store!StoreNext /\ OthersStay
FileStep == part = "file" /\ File!Next /\ OthersStay

MCNext ==
    \/ DiscoveryStep
    \/ ServiceStep
    \/ TaskStep
    \/ ProcessStep
    \/ ElevationStep
    \/ DesktopStep
    \/ InstallStep
    \/ StagingStep
    \/ StoreStep
    \/ FileStep

mcVars ==
    <<part, entries, mode, phase, todo, attempted, succeeded, completed,
      queue, useful, ledger, warnings, omitted, found, events, cancelled,
      inventory, manager, resume, pc, capacity, records, observations, errors,
      changes, stable, folders, stack, spec, observed, child, heir, pipe,
      written, kept, reader, total, failure, cancel, late, answer, broker,
      outcome, helper, client, frame, reply, approved, state, retries,
      unreadable, openAtCall, runs, tokens, active, retained, job, stored,
      reports, claimed, picks, ui, calls, polls, clicks, req, machine,
      pending, facts, available, reboot, faults, pkg, files, proc, free,
      failures, crashes, object, temp, inode, receipts, dest, baks, litter,
      row, h, owned, edits, left>>

(***************************************************************************)
(* Fairness: the steps that a part owes.                                   *)
(***************************************************************************)
(* One task or thread, which the runtime keeps running; an adapter ends by *)
(* itself or by its timeout.  Who cancels, and the programs that change    *)
(* what is scanned, owe nothing.                                           *)
ScanFair ==
    /\ WF_mcVars(part = "discovery" /\ Scan!ScanStep /\ OthersStay)
    /\ WF_mcVars(part = "services" /\ Svc!SsStep /\ OthersStay)
    /\ WF_mcVars(TaskStep)

(* The tasks of the process runner are scheduled and the clock advances;   *)
(* the child, whoever inherits its pipes and the caller owe nothing.       *)
Process(A) == part = "process" /\ A /\ OthersStay
ProcessFair ==
    /\ WF_mcVars(Process(Proc!Start)) /\ WF_mcVars(Process(Proc!DeadlinePasses))
    /\ WF_mcVars(Process(Proc!Selects)) /\ WF_mcVars(Process(Proc!Joins))
    /\ \A s \in Proc!Streams : WF_mcVars(Process(Proc!Read(s) \/ Proc!ReadEnd(s)))

(* Every wait of broker and helper has a timeout, so that each of them     *)
(* takes a step when it can.                                               *)
Elevated(A) == part = "elevation" /\ A /\ OthersStay
ElevationFair ==
    \A r \in DOMAIN ElRequests :
        /\ WF_mcVars(Elevated(Elev!Connects(r))) /\ WF_mcVars(Elevated(Elev!Exchanges(r)))
        /\ WF_mcVars(Elevated(Elev!Serves(r)))

(* The runtime of the interface delivers replies and events and wakes up   *)
(* the polling; jobs need not end.                                         *)
Desktop(A) == part = "desktop" /\ A /\ OthersStay
DesktopFair ==
    /\ WF_mcVars(Desktop(\E c \in calls : Desk!Continue(c)))
    /\ WF_mcVars(Desktop(\E p \in polls : Desk!Poll(p)))
    /\ WF_mcVars(Desktop(Desk!Receive))

(* A handler that was started runs to its end, and a user answers,         *)
(* restarts and resumes; crashes, failures and edits are not fair.         *)
HandlerFair ==
    /\ WF_mcVars(InstallStep)
    /\ WF_mcVars(part = "staging" /\ Staging!StStep("p") /\ OthersStay)
    /\ WF_mcVars(part = "store" /\ Store!ProcessStep("p") /\ OthersStay)
    /\ WF_mcVars(part = "store" /\ Store!Restart("p") /\ OthersStay)
    /\ WF_mcVars(part = "file" /\ File!Program /\ h.pc # "idle" /\ OthersStay)

MCFairSpec ==
    /\ MCInit /\ [][MCNext]_mcVars
    /\ ScanFair /\ ProcessFair /\ ElevationFair /\ DesktopFair /\ HandlerFair

(***************************************************************************)
(* Properties                                                              *)
(***************************************************************************)
(* A scan ends, whatever its adapters do as long as they yield to the      *)
(* runtime, whatever calls fail and although the list of services outgrows *)
(* the buffer between two calls; a scan                                    *)
(* cancelled before its last look at the token yields no inventory         *)
(* (Coordinator::discover, enumerate_services, enumerate_tasks).           *)
ScansEnd ==
    /\ part = "discovery" ~> part = "discovery" /\ mode \in Scan!Over
    /\ part = "discovery" /\ mode = "phase" /\ cancelled ~> part = "discovery" /\ mode = "cancelled"
    /\ part \in {"services", "tasks"} ~> part \in {"services", "tasks"} /\ pc = "done"

(* A started command returns if no descendant keeps its pipes for ever     *)
(* (its readers are joined without a timeout), a request for elevation     *)
(* gets its answer and leaves no helper behind, the interface does not     *)
(* stay busy, a package                                                    *)
(* with a recipe is settled over reboots and stopped attempts, staging and *)
(* the store get past the names that killed processes left, and a file     *)
(* handler comes back.                                                     *)
WorkEnds ==
    /\ <>[](part = "process" /\ ~heir)
          => (part = "process" /\ pc = "select" ~> part = "process" /\ pc = "done")
    /\ \A r \in DOMAIN ElRequests :
          part = "elevation" /\ broker[r] = "connect"
             ~> part = "elevation" /\ broker[r] = "done" /\ helper[r] = "exited"
    /\ part = "desktop" /\ ui.busy ~> part = "desktop" /\ ~ui.busy
    /\ part = "install" /\ Install!Valid(req) /\ Install!Automatic(req)
          ~> part = "install" /\ outcome \in Install!Settled
    /\ part = "staging" ~> part = "staging" /\ proc["p"].done = 1
    /\ part = "store" ~> [](part = "store" /\ proc["p"].pc = "ended")
    /\ part = "file" /\ h.pc # "idle" ~> part = "file" /\ h.pc = "idle"
=============================================================================
