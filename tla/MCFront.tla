------------------------------ MODULE MCFront ------------------------------
(***************************************************************************)
(* What runs in front of the engine: child processes, the elevation        *)
(* helper, the command line's runs and their files, the terminal session   *)
(* and the desktop shell. A behaviour is one of them at work.              *)
(***************************************************************************)
EXTENDS Naturals, FiniteSets, Sequences, TLC

CONSTANTS
    \* ProcessRunner
    Specs, Registered, MaxTimeout, MaxLimit, MaxArgs, MaxArgBytes, Buffer, MaxWritten,
    \* Elevation
    Requests, Ops, Elevated, Stray, JournalFile, HelperFile, MaxRetries,
    \* RunService
    Procs, Runs, Versions, PlanActions, MaxCommands, MaxEvents,
    \* Terminal, for a session that makes backups and one that restores
    MakeMachine, MakePresets, MakeDirs, MakeNames, MakeFiles, MakeRuns, MakeOutside,
    UseMachine, UsePresets, UseDirs, UseNames, UseFiles, UseRuns, UseOutside,
    \* Desktop, with or without dialogs
    MaxRuns, MaxTokens, MaxRetained, MaxSelections, MaxPolls,
    DeskPicks, DeskClicks, DialogPicks, DialogClicks

(* Output limits and sizes are numbers; a read returns something.          *)
ASSUME ProcessAssumption ==
    /\ \A s \in Specs : s.limit \in Nat
    /\ Buffer \in Nat \ {0} /\ MaxWritten \in Nat

VARIABLES part,
    spec, observed, pc, child, heir, pipe, written, kept, reader, total,
    failure, cancel, late, answer, broker, outcome, helper, client, frame,
    reply, approved, state, retries, unreadable, openAtCall, proc, package,
    target, journal, actions, runFile, report, applied, consented, exits,
    commands, events, scr, memory, disk, machine, old, held, selected,
    initialized, review, prefs, saved, files, made, told, run, accepted,
    executed, promised, outside, runs, tokens, active, retained, cancelled,
    job, stored, reports, claimed, picks, entries, ui, calls, polls, clicks, unsaid

(* Instances of ProcessRunner for TLC.                                     *)

PrC(e, t, l, a, b) == [exe |-> e, timeout |-> t, limit |-> l, args |-> a, bytes |-> b]
PrSpecs == {PrC("builtin", 1, 2, 1, 1), PrC("tool", 1, 1, 0, 0),
            PrC("builtin", 0, 2, 0, 0), PrC("builtin", 3, 2, 0, 0), PrC("builtin", 1, 0, 0, 0),
            PrC("builtin", 1, 4, 0, 0), PrC("builtin", 1, 2, 2, 0), PrC("builtin", 1, 2, 1, 2)}

PrX(a, r, e) == [component |-> "tool", absolute |-> a, regular |-> r, exe |-> e]
PrRegistered == {PrX(TRUE, TRUE, TRUE), PrX(FALSE, TRUE, TRUE), PrX(TRUE, FALSE, TRUE), PrX(TRUE, TRUE, FALSE)}

(* Instances of Elevation for TLC: two requests at once.                   *)

ElAsked(r, o) == [run |-> r, op |-> o]
ElRequests == "n1" :> ElAsked("r1", "o1") @@ "n2" :> ElAsked("r1", "o2")

ElFrame(r, o, n) == [kind |-> "request", run |-> r, op |-> o, nonce |-> n]
ElStray == {ElFrame("r2", "o1", "n1"), ElFrame("r1", "o1", "n2"), [ElFrame("none", "none", "none") EXCEPT !.kind = "garbage"]}

(* Instances of RunService for TLC: one plan has a manual action.          *)

SvcPlanActions == 1 :> {"act"} @@ 2 :> {}

(***************************************************************************)
(* Terminal sessions on a machine that changes once: one component grows   *)
(* large, one disappears, one becomes safe.                                *)
(***************************************************************************)

TermComponent(cat, flags, portable, recommended, ai) ==
    [cat |-> cat, flags |-> flags, portable |-> portable, recommended |-> recommended, ai |-> ai]

TermMachine ==
    << "editor" :> TermComponent("Programs", {}, TRUE, TRUE, FALSE)
       @@ "agent" :> TermComponent("AiHarnesses", {}, FALSE, FALSE, TRUE)
       @@ "key" :> TermComponent("Programs", {"sensitive"}, TRUE, TRUE, FALSE),
       "editor" :> TermComponent("Programs", {"large"}, TRUE, TRUE, FALSE)
       @@ "key" :> TermComponent("Programs", {}, TRUE, TRUE, FALSE) >>

TermOneMachine == <<"key" :> TermComponent("Programs", {"binary"}, FALSE, FALSE, FALSE)>>

TermAllPresets == {"Recommended", "Developer", "AiDevelopment", "AiWorkstation", "FullSafe",
               "Minimal", "Custom"}
TermOneStart == {<<"documents", "a">>}

-----------------------------------------------------------------------------
Proc == INSTANCE ProcessRunner
Elev == INSTANCE Elevation
Serv == INSTANCE RunService
Term == INSTANCE Terminal
    WITH Machine <- MakeMachine, Presets <- MakePresets, Dirs <- MakeDirs, Names <- MakeNames,
         StartFiles <- MakeFiles, Runs <- MakeRuns, MaxOutside <- MakeOutside
TermR == INSTANCE Terminal
    WITH Machine <- UseMachine, Presets <- UsePresets, Dirs <- UseDirs, Names <- UseNames,
         StartFiles <- UseFiles, Runs <- UseRuns, MaxOutside <- UseOutside
Desk == INSTANCE Desktop
    WITH MaxPicks <- DeskPicks, MaxClicks <- DeskClicks
Dialogs == INSTANCE Desktop
    WITH MaxPicks <- DialogPicks, MaxClicks <- DialogClicks

(* The variables that one part alone has, and those that a part leaves     *)
(* alone.                                                                  *)
ofProcess ==
    <<spec, observed, pc, child, heir, pipe, kept, reader, total, failure,
      cancel, late, answer>>
ofElevation ==
    <<broker, outcome, helper, client, frame, reply, approved, state, retries,
      unreadable, openAtCall>>
ofService ==
    <<proc, package, target, journal, actions, runFile, report, applied,
      consented, exits, commands>>
ofTerminal ==
    <<scr, memory, disk, machine, old, held, selected, initialized, review,
      prefs, saved, files, made, told, run, accepted, executed, promised,
      outside, unsaid>>
ofDesktop ==
    <<runs, tokens, active, retained, cancelled, job, stored, reports,
      claimed, picks, entries, ui, calls, polls, clicks>>

besidesProcess == <<ofElevation, ofService, ofTerminal, ofDesktop, events>>
besidesElevation ==
    <<ofProcess, ofService, ofTerminal, ofDesktop, written, events>>
besidesService == <<ofProcess, ofElevation, ofTerminal, ofDesktop, written>>
besidesTerminal ==
    <<ofProcess, ofElevation, ofService, ofDesktop, written, events>>
besidesDesktop == <<ofProcess, ofElevation, ofService, ofTerminal>>

(* One part is chosen and runs; the variables of the others are "off".     *)
ProcessIsOff ==
    /\ spec = "off" /\ observed = "off" /\ pc = "off" /\ child = "off"
    /\ heir = "off" /\ pipe = "off" /\ kept = "off" /\ reader = "off"
    /\ total = "off" /\ failure = "off" /\ cancel = "off" /\ late = "off"
    /\ answer = "off"
ElevationIsOff ==
    /\ broker = "off" /\ outcome = "off" /\ helper = "off" /\ client = "off"
    /\ frame = "off" /\ reply = "off" /\ approved = "off" /\ state = "off"
    /\ retries = "off" /\ unreadable = "off" /\ openAtCall = "off"
ServiceIsOff ==
    /\ proc = "off" /\ package = "off" /\ target = "off" /\ journal = "off"
    /\ actions = "off" /\ runFile = "off" /\ report = "off" /\ applied = "off"
    /\ consented = "off" /\ exits = "off" /\ commands = "off"
TerminalIsOff ==
    /\ scr = "off" /\ memory = "off" /\ disk = "off" /\ machine = "off"
    /\ old = "off" /\ held = "off" /\ selected = "off" /\ initialized = "off"
    /\ review = "off" /\ prefs = "off" /\ saved = "off" /\ files = "off"
    /\ made = "off" /\ told = "off" /\ run = "off" /\ accepted = "off"
    /\ executed = "off" /\ promised = "off" /\ outside = "off"
    /\ unsaid = "off"
DesktopIsOff ==
    /\ runs = "off" /\ tokens = "off" /\ active = "off" /\ retained = "off"
    /\ cancelled = "off" /\ job = "off" /\ stored = "off" /\ reports = "off"
    /\ claimed = "off" /\ picks = "off" /\ entries = "off" /\ ui = "off"
    /\ calls = "off" /\ polls = "off" /\ clicks = "off"

OffProcess ==
    /\ ElevationIsOff /\ ServiceIsOff /\ TerminalIsOff /\ DesktopIsOff
    /\ events = "off"
OffElevation ==
    /\ ProcessIsOff /\ ServiceIsOff /\ TerminalIsOff /\ DesktopIsOff
    /\ written = "off" /\ events = "off"
OffService ==
    /\ ProcessIsOff /\ ElevationIsOff /\ TerminalIsOff /\ DesktopIsOff
    /\ written = "off"
OffTerminal ==
    /\ ProcessIsOff /\ ElevationIsOff /\ ServiceIsOff /\ DesktopIsOff
    /\ written = "off" /\ events = "off"
OffDesktop ==
    /\ ProcessIsOff /\ ElevationIsOff /\ ServiceIsOff /\ TerminalIsOff

MCInit ==
    \/ part = "process" /\ Proc!RunInit /\ OffProcess
    \/ part = "elevation" /\ Elev!ElevInit /\ OffElevation
    \/ part = "service" /\ Serv!ServiceInit /\ OffService
    \/ part = "create" /\ Term!TermInit /\ OffTerminal
    \/ part = "restore" /\ TermR!TermInit /\ OffTerminal
    \/ part = "desktop" /\ Desk!DeskInit /\ OffDesktop
    \/ part = "dialogs" /\ Dialogs!DeskInit /\ OffDesktop

ProcessStep == part = "process" /\ Proc!RunNext /\ UNCHANGED <<part, besidesProcess>>
ElevationStep == part = "elevation" /\ Elev!ElevNext /\ UNCHANGED <<part, besidesElevation>>
ServiceStep == part = "service" /\ Serv!ServiceNext /\ UNCHANGED <<part, besidesService>>
CreateStep == part = "create" /\ Term!TermNext /\ UNCHANGED <<part, besidesTerminal>>
RestoreStep == part = "restore" /\ TermR!TermNext /\ UNCHANGED <<part, besidesTerminal>>
DesktopStep == part = "desktop" /\ Desk!DeskNext /\ UNCHANGED <<part, besidesDesktop>>
DialogStep == part = "dialogs" /\ Dialogs!DeskNext /\ UNCHANGED <<part, besidesDesktop>>

MCNext ==
    \/ ProcessStep
    \/ ElevationStep
    \/ ServiceStep
    \/ CreateStep
    \/ RestoreStep
    \/ DesktopStep
    \/ DialogStep

mcVars ==
    <<part, spec, observed, pc, child, heir, pipe, written, kept, reader,
      total, failure, cancel, late, answer, broker, outcome, helper, client,
      frame, reply, approved, state, retries, unreadable, openAtCall, proc,
      package, target, journal, actions, runFile, report, applied, consented,
      exits, commands, events, scr, memory, disk, machine, old, held,
      selected, initialized, review, prefs, saved, files, made, told, run,
      accepted, executed, promised, outside, runs, tokens, active, retained,
      cancelled, job, stored, reports, claimed, picks, entries, ui, calls,
      polls, clicks, unsaid>>

MCSpec == MCInit /\ [][MCNext]_mcVars

(***************************************************************************)
(* Properties                                                              *)
(***************************************************************************)
(* However the child, its descendants, the readers, the clock and the      *)
(* user's cancellation interleave, a finished run is within its limits,    *)
(* has stopped its child or says that it could not, and reports a complete *)
(* output or why there is none (ProcessRunner::run).                       *)
ProcessesAreContained ==
    part = "process" => /\ Proc!ProcTypeOK /\ Proc!OutputIsBounded /\ Proc!ResultIsComplete
                        /\ Proc!NothingLeftRunning /\ Proc!ResultIsTrue

(* Only an approved, current operation is authorised, to the process that  *)
(* asked, and a rejection has a reason (the elevation helper).             *)
ElevationIsEarned ==
    part = "elevation" => /\ Elev!ElevTypeOK /\ Elev!AuthorizationIsEarned
                          /\ Elev!AuthorizationIsNotStale /\ Elev!RejectionIsTrue

(* Over crashes and concurrent commands, only what was approved is         *)
(* applied, every run with effects can be resumed, and reports and exit    *)
(* codes are earned (ApplicationService, run_state).                       *)
RunsAreAccountedFor ==
    part = "service" => /\ Serv!AppliedIsApproved /\ Serv!EffectsAreResumable
                        /\ Serv!ReportIsEarned /\ Serv!ExitZeroIsEarned

(* In the terminal a selection holds nothing unsafe, a package made is     *)
(* announced although its creation was cancelled, unless an error or a     *)
(* kill came between, a restore goes on only with consent, and a stopped   *)
(* run is offered again (TerminalApp).                                     *)
SessionsAreSafe ==
    /\ part = "create" => Term!SelectionIsEarned /\ Term!BackupIsTold
    /\ part = "restore" => TermR!GoesOnWithConsent /\ TermR!StoppedRunsResume /\ TermR!DirectoryIsStored

(* The shell's registry holds exactly the jobs that are alive, an ended    *)
(* job has a final state, and files are written only where the user's      *)
(* dialog pointed (src-tauri commands and the interface).                  *)
JobsAreTracked ==
    /\ part = "desktop" => Desk!ActiveIsAlive /\ Desk!EndedIsTerminal
    /\ part = "dialogs" => Dialogs!DestinationsArePicked
=============================================================================
