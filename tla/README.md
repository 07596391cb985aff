# Reforge: a TLA+ model of the capture and restore system

Reforge captures a Windows developer environment into a package and rebuilds it
on another machine. A scan makes an inventory; the user selects from it and a
package is created; on the target the package is compared, planned, approved and
executed against a live machine by processes that may crash, be cancelled, wait
for the user or a reboot, and be started again, possibly twice at a time. This
project models these parts, checks them with TLC on small instances, and proves
the safety properties of the restore core, planning and reporting, the package
store, package creation, the vault, the handlers, the Windows enumerations and
all front ends with TLAPS, for every plan, input and bound and any number of
processes.

Paths below are relative to `src/`; `restore/`, `package/`, `discovery/`,
`domain/`, `cli/`, `windows/` and `helper/` stand for
`crates/reforge-restore/src/` and its siblings (`reforge-platform-windows`,
`reforge-elevation-helper`).

## 1. The system

| Part | State it keeps | Talks to | What is hard | What makes it correct |
|---|---|---|---|---|
| Journal, `restore/journal.rs` | SQLite rows of a run: status, approval, operations, manual actions | executor, every front end; a file shared by processes | recovery runs at *every* open, also while another process executes; late writers | approval before any start, verified rows final |
| Executor, `restore/executor.rs`, `manual_actions.rs` | a snapshot of the rows, loop position, cancellation | journal, handlers, target facts, user | stale snapshot, crash between any two writes, retries, answers that race | prerequisite order, honest COMPLETED, evidence, journal before effect, consent per attempt |
| Verification, `restore/verification.rs` | none | journal, target scan | states, proofs and facts of different moments | failure reported, success earned |
| Planner, `restore/planner.rs`, `operations.rs`, `diff.rs`, `conflicts.rs`, `compatibility.rs` | none; builds a plan | package, target scan, selection | cycles, overlapping writes, blocked dependencies | topological, confirmed first, no racing writes |
| Handlers, `restore/handlers/` | files, environment, Docker, WSL, package managers, profiles | platform layer, other programs | partial effects, retries, changes by others between read and write | originals kept, nothing half restored called restored |
| Package, `package/` | object store, archive, signature, vault | CLI, handlers | killed writers, concurrent writers, files that change between two readings | what is read is what was hashed; what is written can be read |
| Creation and service, `cli/main.rs` | run-state and report files, output archive | all of the above | files and journal written separately; sources that change after the review | only what was approved and screened |
| Terminal, `cli/tui.rs`, `interactive.rs` | inventory, selection, preferences, screens | service, workers, Ctrl+C | selection older than the inventory; cancellation that races the worker | nothing unsafe selected, consent before work |
| Discovery, `discovery/` | ledgers, observations, graph | adapters, platform layer | timeouts, cancellation, merging | nothing lost silently, no false identity |
| Platform layer, `windows/` | files, processes, enumerations | handlers, discovery | calls that fail halfway, lists that change while they are read | old or new content; observed or reported as an error |
| Elevation, `windows/privilege.rs`, `helper/` | one request per helper | broker, journal | authorisation outdated when used, pipe of somebody else | only an approved, current operation |
| Desktop, `src-tauri/src`, `ui/src` | jobs, tokens, selections, interface state | service | awaits, polling, retention | registry equals what is alive |

`PROJECT.json` lists the parts under `components`, with their status, and the
places where the code is hard to test under `hazards`.

Two facts about the composition shape the core. Nothing locks a run across
processes: `Journal::open` succeeds for any number of processes, and the writer
thread serialises only the writes of its own. And each journal write is one
IMMEDIATE SQLite transaction, but an operation is carried out by several of them
with the effect on the target in between.

## 2. Modules

Every module header says what its values stand for; every definition that models
code is in the `map` of `PROJECT.json` with its lines. A definition introduced by
"Faulty variant" is a plausible bug of the definition that follows it. It is no
part of the specification; a property is known to fail when the variant replaces
the original.

### The restore core

| Module | Models | Built on |
|---|---|---|
| `Journal` | the rows of one run and every transaction | |
| `Executor` | processes that execute the run, the user, crashes | extends `Journal`, instantiates `RestoreLifecycle` |
| `RestoreLifecycle` | abstract: what a run promises its user | |
| `ExecutorProofs` | theorems on the journal and the executor, refinement, effects, blocks and retries included | extends `Executor` |

`Journal`: `runStatus` and `approval` are the columns of `runs`; `op[o]` is the
row of an operation, reduced to state, attempt and one bit, whether the stored
result is usable evidence; `action` is the table of manual actions. An action id
is `<<o, 0>>` for the plan's own action and `<<o, n>>` for
`operation-blocker:o:n`, so that consent is bound to an attempt as in
`operation_blocker_action_id`. Each action is one transaction: `SetApproval`,
`SetRunStatus`, `TransitionOperation`, `AddManualAction`,
`SetManualActionState`, `RecoverRunningOperations` (run by every open).
`JournalNext` lets any client call any of them with any arguments, since the
journal promises its properties to any caller.

`Executor`: `ex[p]` is a process: a program counter over the points of
`execute_with_progress` between which others can act, the index of the current
operation, the snapshot `states`, the flag `waiting_for_user`, the cancellation
token, whether the scan before the launch matched the plan's fingerprint, and the
write it is about to make. `effects[o]` counts how often o's effect reached the
target. `OpenJournal`, `Quit`, `Launch`, `OtherCommandOpens` are the processes
around it; `Validate` takes the snapshot; `VisitDone` ... `VisitReady` are the
branches at the top of the loop; `CompleteAction`, `Ready`, `Probe`,
`MarkRunning`, `Run...`, `QueueBlocker`, `Record`, `SetStatus`, `Finish` follow
the body to the report; `JournalFails` is a journal call that fails and writes
nothing: before and inside the handler it fails the operation, elsewhere
`execute_with_progress` returns the journal's error at once and the row or the run
stays as it is (`refused`); `Decide`, `Acknowledge`, `Skip`, `Cancel` are the user's,
`Crash` is anybody's. Typed handlers are abstracted to their outcome and to
whether they changed the target before they failed; the modules of the handlers
have their detail. Manual and reboot operations are decided by the journal and
are modelled exactly. No front end installs a backup hook, so its failure path is
left out.

`RestoreLifecycle`: approval, the set of done operations, whether the run is
reported finished. The mapping reads it off the journal: `done` is the set of
COMPLETED or SKIPPED rows, `finished` is status COMPLETED.

### Selecting, planning, reporting

| Module | Code | State and actions |
|---|---|---|
| `Selection` | `domain/selection.rs` | the work list of `build_selection_closure`; one action per pass: closure, optional edges, component policies, artifacts, bytes |
| `TargetDiff` | `restore/diff.rs`, `conflicts.rs` | the package graph and the target facts, constant in a behaviour; conflicts component by component, then the passes of `add_dependency_conflicts`; `Disposition` per component |
| `Planner` | `restore/planner.rs`, `operations.rs`, `compatibility.rs` | extends `TargetDiff`; blockers and confirmations as operators; trust, closure, confirmations, operations, prerequisites, overlapping writes, topological order, validation |
| `VerificationReport` | `restore/verification.rs` | rows, actions and facts change between reports; `BuildReport` is a function of them |
| `PlanningProofs` | | theorems on all four |

### Packages and secrets

| Module | Code | State and actions |
|---|---|---|
| `PackageStore` | `package/content_store.rs` | chunks, temporary names, hard links, verification, cleanup, of several processes that are killed and reuse identifiers |
| `ObjectStoreAbstract` | what the store promises | objects appear atomically and stay; refined by `PackageStore` |
| `PackageFormat` | `package/writer.rs`, `reader.rs`, `signature.rs`, `PackageSetResolver` | documents, manifests and entries; write, damage, inspect, decide on trust, resolve later |
| `Vault` | `package/vault.rs`, `SecretRestoreGate` | collection, encryption, recovery identity, decryption, restore to adapters that prove their target or do not |
| `PackageCreate` | `create_package` and its review in `cli/main.rs` | review, screening, ingestion, sealing, publication, while files change |
| `PackageStoreProofs`, `PackageProofs` | | theorems on the store, and on vault and creation |

### Handlers

| Module | Code | State and actions |
|---|---|---|
| `FileReplace` | `handlers/files.rs`, `config.rs`, `windows/fs.rs`, the backup column | the operation's conflict mode, destination, temporary file, numbered backups, row; every file system call of `atomic_replace` and its rollback; edits by the user; crash |
| `SubsystemRestore` | `handlers/docker.rs`, `wsl.rs` | daemon, images, volumes, distributions; commands that end well, fail, time out, are cancelled, with partial effects |
| `UserEnvironment` | `handlers/environment.rs` | the registry values, merge of Path, broadcast; other programs |
| `McpRegistration` | `handlers/harnesses.rs` | the harness's document, merge of one server, secrets, manual action |
| `ArtifactStaging` | `handlers/mod.rs` | package objects, temporary names, verified copy, capacity, comparison with a target file |
| `PackageInstall` | `handlers/providers.rs`, `vscode.rs` | the package manager's listing, installation, timeouts, reboot |
| `BrowserProfile` | `handlers/browsers.rs` | routing by destination, the profile lock, the browser |
| `HandlerProofs` | | theorems on all of them |

### Scans

| Module | Code | State and actions |
|---|---|---|
| `Discovery` | `discovery/coordinator.rs`, `dedup.rs`, `recommend.rs`, `evidence.rs` | phases, adapters with timeouts, ledgers, progress, cancellation; as operators: grouping, merge, edges, confidence, recommendation |
| `ArtifactCollect` | `discovery/artifacts.rs` | walks, limits and reads over a changing tree; the streaming classifier byte by byte |
| `RegistryScan`, `ServiceScan`, `TaskScan`, `ShellInventory` | `windows/registry.rs`, `services.rs`, `tasks.rs`, `appx.rs`, `startup.rs`, `shell_links.rs` | the enumerations call by call, while what they list changes |
| `WslDiscovery` | `discovery/providers/wsl.rs` | listing, features, queries of running distributions, captures, the adapter's shared metadata, plans |
| `WindowsScans` | | the five enumerations side by side (registry, services, tasks, shell, WSL) with the properties they share; `WinSpec` |
| `ScanProofs` | | theorems on `WindowsScans` |

### Front ends

| Module | Code | State and actions |
|---|---|---|
| `ProcessRunner` | `windows/process.rs` | child, descendant, two readers, deadline, limit, cancellation, kill, join |
| `Elevation` | `windows/privilege.rs`, `helper/` | broker and helper per request, pipe, timeouts, the journal row that goes on changing |
| `RunService` | the run commands of `cli/main.rs` | journal, run-state file, report file, package file; one durable change per step |
| `Terminal` | `cli/tui.rs`, `interactive.rs` | screens, selection, preferences, workers, history, Ctrl+C |
| `Desktop` | `src-tauri/src/commands.rs`, `events.rs`, `ui/src/lib/state.svelte.ts` | run registry, retained runs, tokens, dialogs, calls, polls |
| `FrontProofs` | | theorems on all of them |

The desktop commands are compiled but not registered in this release; they are
modelled as if they were. `Elevation`'s instances let application and helper name
the same journal file, as the protocol intends; in the code the names differ (see
section 5).

## 3. Runs

Components that do not interact are checked together: an MC module is a *suite*,
the disjoint union of its components. A variable `part` is chosen initially and
never changes; the other variables belong to the components by INSTANCE, those of
the parts that are not chosen are parked at the value `"off"`, and every step is a
step of the chosen part's own `Next` that leaves the rest alone. A behaviour of a
suite is therefore a behaviour of one component on one of its instances, and a
property of a suite is one statement per part. The constants of `MCPlanning`,
`MCPackage`, `MCHandlers`, `WindowsScans` and `MCFront` that matter to their theorems are constants of the
module, given values in the .cfg, so that what is proved of the suite holds of its
parts for every value. Deadlock is not checked in suites,
since a scan, a plan or a handler ends; the executor's runs check it, because a
command can always open the journal.

| Run | Module | Parts and properties |
|---|---|---|
| `two` | `MCExecutor` | install and verify, two processes, 1 fault, 1 block: `StartedIsApproved`, `StartedAfterPrerequisites`, `CompletedMeansDone`, `VerifiedOnEvidence`, `EffectsAreJournalled`, and the refinements `JournalSpec` (the executor is a client of the journal) and `ImplementsLifecycle` |
| `resume` | `MCExecutor` | confirm, install, a non-idempotent mutation, a Verify proven by target facts; one process, 2 faults, 2 blocks: `BlockedHasAction`, `ReturnsSettled`, `NonIdempotentOnce`, `RetryIsAcknowledged` |
| `live` | `MCExecutor` | confirm that halts, install, reboot, under `FairSpec`: `ApprovedRunCompletes` |
| `store` | `PackageStore` | two writers with process identifiers that are reused, 2 crashes (so that both names of a process may be taken), 1 failed call (at any step, or a staged file that cannot be removed): `ObjectsAreTheirContent`, `NoLeftovers`, `ImplementsStore` |
| `planning` | `MCPlanning` | selection, diff, plan, report: `SelectionIsSafe`, `DiffIsSound`, `PlanIsSound`, `ReportIsHonest` |
| `package` | `MCPackage` | format, limits of the store, vault, creation: `PackageIsWhole`, `SecretsAreSafe`, `CreationIsSafe` |
| `handlers` | `MCHandlers` | `FileReplace` with an operation of any conflict mode, Docker and WSL with a daemon that comes and goes, environment, MCP, staging, installation, browser: `FilesAreKept`, `SubsystemsAreRestored`, `EnvironmentIsMerged`, `RegistrationIsSafe`, `PayloadsAreExact`, `ProfilesAreSafe` |
| `scans` | `MCScans` | discovery, merge, artifacts, probe, and the registry, services, tasks, shell and WSL of `WindowsScans`, which it extends: `DiscoveryIsHonest`, `GraphIsSound`, `CollectionIsExact`, `ScansAreAccountedFor`, `WslPlansAreSound` |
| `front` | `MCFront` | process, elevation, service, terminal (backup and restore), desktop (jobs and dialogs): `ProcessesAreContained`, `ElevationIsEarned`, `RunsAreAccountedFor`, `SessionsAreSafe`, `JobsAreTracked` |
| `progress` | `MCProgress` | what must end, under fairness: `ScansEnd`, `WorkEnds` |
| `own_progress` | `MCExecutor` | violated: `ApprovedRunCompletes` when an installation changes the fingerprint |
| `file_record` | `MCHandlers` | violated: `OriginalsAreRecorded` after a crash before the record |

A suite property says in its comment what each part promises and is a conjunction
of properties that the component's module states, each with its own comment. What
they show, beyond what a test reaches:

- *Files*: through failed calls, failed rollbacks, crashes and edits at any moment,
  what the destination held stays on disk, no partial file is published, and a
  backup the journal names exists.
- *Subsystems*: a volume extracted halfway by a killed process is not taken for
  restored by the next attempt; an image is compared by identity, not by name.
- *Environment, MCP, browser*: merges keep what they parsed, copy no secret, and
  begin only after the browser was seen closed. What they do not keep when
  another program writes in between is in section 5.
- *Store and packages*: names left behind by killed processes lead neither to
  rubbish under an object's name nor to an endless search for a free name; a
  package the writer publishes is one the reader accepts; a file replaced by one
  of the same length is not delivered.
- *Secrets*: after an adapter that failed halfway and a retry with another one,
  no secret has reached a target that was not proven.
- *Planning*: blocking over cyclic dependencies is the least fixed point; writes
  of which one contains the other are ordered; a verification waits, over any
  number of steps, for every mutation of its component and what it depends on.
- *Discovery*: an adapter that times out contributes nothing; three observations
  that agree pairwise do not join packages of two providers.
- *Enumerations*: a service that was there throughout is observed once or has
  an error, although pages and buffers shift during the scan; a registry at
  rest is accounted for, and a value that grows is shown whole or not at all.
- *Elevation*: an authorisation belongs to the request, is not outdated by the
  executor before the helper decided, and ends with no helper left over.
- *Runs and sessions*: every run with effects can be resumed from its file;
  reports and exit code 0 are earned; only accepted runs are offered again; a
  package that was made is announced, unless the process was killed or the terminal
  returned with an error after it was written (`tui.rs:506`, `:511`).
- *Desktop*: the registry holds exactly the jobs that are alive although `finish`
  and `register` take its locks one after the other.

`ReturnsSettled` and `NonIdempotentOnce` are claims about one process; with two the
first is false by design (the other may be running) and the second is the entry
`executor.rs:396` of section 5.

### Bounds

Executor: `MaxAttempt` stands for `u32::MAX`; at 2 to 4 the limit is reached and
the refusal is exercised. `MaxFaults` bounds crashes, cancellations, handler and
precondition failures together; 2 are enough for a fault during the recovery from
a fault. `MaxBlocks = 2` is enough for a second block of the same operation with
the first one's acknowledgement still in the journal. Two processes are enough for
every conflict on one row, and the safety properties of `two` are proved for any
number. Between them the plans hold every kind the executor distinguishes. Those of
`resume` and `two` have the shapes the planner emits. Those of `live` and
`own_progress` do not: the executor accepts the RequireReboot operation of both, and the
ManualApproval precondition (`Halting`) of `live`, but the planner emits neither.
`live` has no Verify, no fingerprinted and no non-idempotent operation, so
`ApprovedRunCompletes` says nothing of those.

Suites: limits of the code are constants small enough to be met, so that the
refusal at the limit happens (2 folders, 3 components, 4 artifacts, 5 bytes of
buffer, 2 tries for a name, chunks of two bytes, 255 warnings as 5). Other
programs may interfere once or twice (`MaxEdits`, `MaxChanges`, `MaxOutside`),
which is enough to come both between a check and its use and during a retry.
Attempts are 2 or 3: one that fails, one that is killed, one that ends. Package
graphs have three components, unconnected, in a chain or in cycles; the
inputs of `planning` and `scans` are lists of chosen shapes rather than all
graphs, each shape there for a branch of the code. Faults are 1 to 3, so that a
rollback can fail after the call it undoes.

### Fairness

`FairSpec` of the executor assumes: a live process keeps executing (nothing in the
loop waits for a lock held by another party); the user starts a process that is
down and resumes the run again and again (weak for opening; strong for launching,
since quitting disables it in between); and he answers every pending action.
Faults are not assumed away, but there are finitely many. `live` keeps
installations out of the fingerprint; `own_progress` is the same claim with them
in it.

`MCProgress` states one group per kind of scheduling, all weak: the one task of a
scan (`ScanFair`; an adapter ends or its timeout does, by `tokio::time::timeout`);
the tasks of the process runner and the clock (`ProcessFair`; the child, its
descendants and the caller owe nothing); broker and helper, whose every wait has a timeout (`ElevationFair`); the interface's runtime
(`DesktopFair`; jobs need not end); handlers and store, once started, and the
user who answers, restarts and resumes (`HandlerFair`). Crashes, failures, edits
and cancellations are never fair. That a command returns is stated only of
behaviours in which no descendant keeps the pipes for ever, since `run` joins the
readers without a timeout (`process.rs:320`); `WorkEnds` has this as a premise. That
a scan ends is stated of adapters that yield: `detect` (`coordinator.rs:143`) has no
timeout, and tokio's timeout does not interrupt a poll that blocks. That the loops of selection, diff and planner
end is not stated: they remove from a finite work list at every step.

## 4. Proofs

Every theorem holds for all values of the constants that satisfy the named
assumptions; the bounds of section 3 play no part in it. A theorem about a suite
is an invariant of one part, lifted: `part` never changes, and a step of the suite
is a step of that part or leaves its variables alone.

| Module | Theorem | States |
|---|---|---|
| `ExecutorProofs` | `JournalTypeCorrect`, `StartedIsAlwaysApproved`, `VerifiedRowsAreFinal` | any client of the journal: `JournalTypeOK`, `StartedIsApproved`, `DoneIsFinal` |
| | `ExecutorTypeCorrect`, `PrerequisitesComeFirst`, `CompletedRunsAreDone`, `VerificationRestsOnEvidence` | any number of executors: `ExecutorTypeOK`, `StartedAfterPrerequisites`, `CompletedMeansDone`, `VerifiedOnEvidence` |
| | `ExecutorUsesJournal`, `ExecutorImplementsLifecycle` | refinements `JournalSpec`, `ImplementsLifecycle` |
| | `EffectsAreAlwaysJournalled` | any number of executors: `EffectsAreJournalled` |
| | `NonIdempotentWorkHappensOnce`, `BlockedWorkHasItsAction`, `ExecutorReturnsSettled`, `RetriesAreAcknowledged` | one executor: `NonIdempotentOnce`, `BlockedHasAction`, `ReturnsSettled`, `RetryIsAcknowledged` |
| `PlanningProofs` | `SelectionIsAlwaysSafe`, `DiffIsAlwaysSound`, `PlanIsAlwaysSound`, `ReportIsAlwaysHonest` | `SelectionIsSafe`, `DiffIsSound`, `PlanIsSound`, `ReportIsHonest` |
| `PackageStoreProofs` | `PublishedObjectsAreWhole`, `NoTemporaryFileIsLeft`, `LongFilesAreRefused` | `ObjectsAreTheirContent`, `NoLeftovers`, `LimitHolds` |
| | `StoreImplementsAbstract` | refinement `ImplementsStore` |
| `PackageProofs` | `SecretsAreAlwaysSafe`, `CreationIsAlwaysSafe` | `SecretsAreSafe`, `CreationIsSafe` |
| `HandlerProofs` | `OriginalIsNeverLost`, `FilesAreAlwaysWhole`, `CompletionNamesItsBackup`, `HandlersKeepFiles` | the parts of `FilesAreKept`, and all of it |
| | `SubsystemsAreAlwaysRestored`, `EnvironmentIsAlwaysMerged`, `RegistrationIsAlwaysSafe`, `PayloadsAreAlwaysExact`, `ProfilesAreAlwaysSafe` | `SubsystemsAreRestored`, `EnvironmentIsMerged`, `RegistrationIsSafe`, `PayloadsAreExact`, `ProfilesAreSafe` |
| `ScanProofs` | `ScansAreAlwaysAccountedFor`, `WslPlansAreAlwaysSound` | `ScansAreAccountedFor`, `WslPlansAreSound` |
| `FrontProofs` | `ChildrenAreAlwaysContained`, `ElevationIsAlwaysEarned`, `RunsAreAlwaysAccountedFor`, `SessionsAreAlwaysSafe`, `JobsAreAlwaysTracked` | `ProcessesAreContained`, `ElevationIsEarned`, `RunsAreAccountedFor`, `SessionsAreSafe`, `JobsAreTracked` |

### The restore core

Assumptions: the plan is a sequence that lists every operation, prerequisites and
relevant operations are operations of the plan, the special kinds are disjoint
(`PlanAssumption`), the bounds are naturals. Nothing is assumed about acyclicity
or about the order of the plan.

None of the invariants is inductive by itself, because the executor
decides on a snapshot that other processes outdate. The journal provides what
rescues it: Done rows never change and APPROVED is for ever (`JournalStepFinal`).
`ExecutorInv` adds, for each process record, `Sound`: a row that is Done in the
snapshot is the journal's row; an operation the snapshot shows waiting has its
prerequisites; what lies behind the loop index is Done unless the wait flag is
set; from the prerequisite check to the recording of the outcome the operation's
prerequisites are Done in the journal; and the prepared write is warranted.
`Sound` mentions the journal only through Done rows and APPROVED, so it survives
every step of everybody else (`SoundIsStable`); a process's own step is covered by
one lemma per kind of step. The refinement follows: only `Record` makes a row
Done, and it does so for an approved run and after the prerequisites
(`NewlyDoneIsWarranted`).

`EffectsAreJournalled` needs a count (`EffectsInv`): the effects so far and the
processes between the start of an attempt and its effect are together at most the
journalled attempts. The four theorems on one executor have the hypothesis
`OneExecutor`; `ReturnsSettled` excepts a return with an error of the journal
itself, whose rows the next open settles. All four properties are false for two (section 5, `executor.rs:396`,
is one way). Beside the one executor the user answers and other commands open the
journal, which interrupts a running attempt. `AloneInv` says how far the snapshot
is then faithful: a row is as the snapshot has it, except that the running attempt
may have become interrupted; a row that waits has its action; and an action
answered for one attempt is not the answer for another.

### Selecting, planning, reporting

Assumptions (`SelectionAssumption`, `DiffAssumption`, `PlannerAssumption`,
`ReportAssumption`): the inputs have their types, identities are numbers, lists
are finite and components that are named exist. Nothing is assumed about the
shape of a graph: dependencies may be cyclic.

`SelInv`: what is selected is reachable from what was asked for, what it requires
is selected or still on the work list, and each artifact was admitted by its
policy or by an explicit decision. `DiffInv`: what is blocked has a reason, and an
edge that could block more is still to come in the pass or the pass is marked as
changed; so what is blocked after the last pass is in every set that is closed
under the required edges and has the direct conflicts. `PlanInv` follows the operations through the
passes of the planner: an operation knows its owner, its disposition and the
confirmations before it; prerequisites only grow; a verification has the mutations
and the dependencies of its component; two writes of which one contains the other
have different keys, so the sort decides between them; and what is emitted comes
after all it waits for. `RepInv` is only the types of rows and answers; the
theorem is about the function `BuildReport`, whose search over prerequisites ends
in nothing, a failure, or an operation that waits.

Induction over data is done by a least counterexample (`LeastMember`). A recursive
function has its equation only if some function satisfies it, which is proved for
`WaitsFor` by extending a solution position by position, and for the report's
search by the number of operations not visited yet.

### Store, packages and secrets

`StoreInv` (`StoreAssumption`: process identifiers and limits are naturals, files
are sequences, a chunk is not empty): live processes have different identifiers,
so that two never hold the same temporary name; a process writes only to the inode
under its name; an inode is published when it already holds its content; what was
read of a file is a whole number of chunks, all published. Names left by killed
processes and hard links to the same inode are what makes the plain property not
inductive.

`VaultInv` (`VaultAssumption`: the sources are records with an identity) follows
the secrets through the phases: records are those of the approved sources once
nothing is left to collect (`Collection`), the document goes unchanged into the
package (`Sealing`), and a restore has dealt exactly with what it selected and no
longer has before it (`Restoring`). `CreationInv` assumes nothing: what has left
the work list was screened as it was read. What screening does not look at, object
keys of a configuration file, is in section 5 (`KeysAreScreened`).

### Handlers

`FileInv` (`FileAssumption`: what the package brings, what the file held and what
the user writes are told apart): from ReplaceFileW to the record or the rollback
the backups alone hold every original line that the user kept, and the row names
no backup while an attempt is under way. `SubsystemInv` (`SubAssumption`),
`RegistrationInv` (`McpAssumption`) and `ProfileInv` say what the stage of an
attempt implies for the machine, the document and the profile, while other
programs act.

`EnvironmentInv` (`UserAssumption`: only the empty entry has an empty comparison
key; variables and operations have values): what is about to be written is the merge
of the Path that was read, or a value found not to look secret. The merge is a
recursive function over positions; that it keeps every key once, and the keys in
the order of their first occurrence, is shown with a least counterexample.

`PayloadInv` (`PayloadAssumption`: limits are naturals, the documents of a package
have their fields, its source delivers something for every object): what a process
has hashed is what is in its temporary file, the bytes of the chunks it has behind
it, in their order, and of the part of the current one; and a live temporary file
belongs to the process that is working on it. That the comparison with a target file
is equality follows from the places where chunks end, which are sums.
`InstallInv`: what the scan saw is what is installed when it is looked at, and an
attempt that is under way has no outcome.

### Scans

The theorems are about `WinSpec`, the specification of `WindowsScans`; the steps of
a Windows part in the run are exactly its steps (`WindowsStep` in `MCScans`).
Assumptions (`RegistryAssumption`, `ServiceAssumption`, `TaskAssumption`,
`ShellAssumption`, `WslAssumption`): limits are naturals, listed things have their
types, a list has no name twice, every task folder lies under the root, and the
distributions are finitely many and not named like the two features. The registry,
the services and the distributions change while they are listed; the reading of the
tasks and of the shell's items fails at any call.

- `RegInv`: what was read of a value is all of it and within the limit (`RegData`).
  While nothing has changed (`RegStill`), the roots before the current one are done,
  so are the keys before the current index, and the open key is the one at the index.
- `ServiceInv`: while pages are read, the records are the services that the resume
  handle has passed; after the last page, the records left and the observations are
  together those services, and what was there throughout is among them.
- `TaskInv`: there is a set of folders that the walk has entered, each of which
  failed, was walked to its end with its subfolders in the set, or is on the stack.
  The set is not a variable of the code, so the invariant is an existential statement
  and each step gives the next set.
- `ShellInv`: every item of a root that was walked is still to be inspected, was
  observed, or is covered by an error of its own, of its root or of the whole scan.
- `WslInv`: a distribution that ran is queried, has its configuration or a warning;
  the shared metadata are those of the latest discovery, so that a plan of it imports
  only verified exports; and the steps of a plan come after what they wait for.

How many records fit into a page is computed by a recursive function; what is needed
of it is obtained by a least counterexample, as in planning.

### Front ends

- `ProcInv` (`ProcessAssumption`: limits are numbers, a read returns something):
  what a stream carried is in its pipe or kept until its reader fails, and the
  counter the readers share is what left both pipes.
- `ElevInv`: only a connected broker is answered, the frame in its pipe is its own,
  and an operation open when the helper decides was open when it was asked for,
  since terminal rows stay terminal.
- `ServInv`: a run has one creator, who works before its file exists, and everyone
  else works after; so the row a process relies on is changed only by executors.
- `MakeInv`, `UseInv` (terminal sessions): at most the package just written is not
  announced, and while it counts as written it exists; the screens that offer
  components have an inventory that was shown; a run that is being planned is not
  known yet, so that planning takes back no promise; a run that is executing was
  accepted.
- `DeskInv`, `DialogInv`: registered runs and the jobs that will unregister them
  are one to one, although a resumed run may be registered a second time; what is
  retained is final or has a job that will make it so.

### Only model-checked

- Liveness: `ApprovedRunCompletes`, `ScansEnd`, `WorkEnds`. Fairness and `ENABLED`
  are out of the prover's reach.
- What recursive definitions and folds compute, which needs induction over data:
  `PackageIsWhole` (documents built and read back), `GraphIsSound` (the fold of
  observations into a graph) and `CollectionIsExact` (the sizes of a walked tree,
  UTF-8 sequences cut at a chunk's end).
- `DiscoveryIsHonest`, whose ledgers are sums over the adapters of a phase and whose
  merge is such a fold.

## 5. Where the code and its documents disagree

Two disagreements have a run and an entry under `findings`:

| Run | What happens |
|---|---|
| `own_progress` | An installation changes the fingerprint of the target, the run waits for a reboot, and every resume is refused by `validate_execution` (`executor.rs:703`). `docs/recovery.md:114`: "Resume the same run:". |
| `file_record` | A crash between the replacement and the record: the next attempt finds the destination equal and records SKIPPED without the backup (`journal.rs:1311`). `docs/recovery.md:83`: "the original is retained as a generated sibling backup recorded in the operation result." |

The others were met in the same way. The definition in the third column states
what is said, in its module, under the heading "Said by the code or its documents,
and not kept"; the behaviour that breaks it is a behaviour of the module.

| Place | What the code does | Said, and by whom |
|---|---|---|
| `restore/executor.rs:368` | waiting is looked for in direct prerequisites only: a Verify behind a mutation behind an unanswered confirmation fails the run | `WaitingIsNotFailure`; `docs/recovery.md:196`: "Resolve the action, acknowledge it, and resume." |
| `restore/executor.rs:396` | the guard reads the snapshot: a second process repeats a non-idempotent effect (latent, the planner emits none today) | `NonIdempotentOnce` with two processes; `docs/recovery.md:125`: "Resume does not blindly repeat non-idempotent work" |
| `restore/executor.rs:876` | a skip is consulted only while the row waits; one that races the executor is persisted and forgotten | `SkipIsHonoured`; `manual_actions.rs:131`: "Persist that the user intentionally skipped an action." |
| `restore/verification.rs:744` | a skipped operation leaves no evidence, so the Verify behind it fails at every resume | `ApprovedRunCompletes`; `tests/manual_actions.rs:463`: "skipped action completes the run" |
| `restore/verification.rs:600` | a rule whose operation is pending behind a waiting one is Failed | `PauseIsReported`; `README.md:273`: "The report status and exit code make the pause machine-readable." |
| `windows/fs.rs:445` | a file that appears after the handler's check is replaced (with a backup) in create-only mode | `CreateOnlyRejects`; `tests/handlers_files.rs:243`: "create_only_rejects_a_racing_target" |
| `windows/fs.rs:506` | the rollback deletes what another program saved after the replacement | `NothingLost`; `REFORGE_IMPLEMENTATION_SPEC.md:1876`: "no overwrite without backup" |
| `restore/planner.rs:1358` | a dependent waits for one operation of its dependency | `DependenciesFirst`; spec `:1245`: "topologically sorts graph dependencies and operation prerequisites" |
| `restore/operations.rs:381` | the order of overlapping writes may contradict the dependencies, and an acyclic selection is refused | `AcyclicIsPlanned`; spec `:748`: "Cycles ... make a restore plan `DEPENDENCY_CYCLE`" |
| `restore/planner.rs:784` | a runtime that the plan installs first is demanded of the target | `RuntimeBootstrapped`; spec `:1250`: "bootstrap providers/runtimes" |
| `cli/main.rs:2671` | two files that share a chunk and differ in type cannot be packaged | `StoredIsPackaged`; `main.rs:2660`: "must have one content type in the content-addressed store" |
| `cli/main.rs:1002` | killed between approval and the run-state file, a run cannot be resumed (it has no effects yet) | `ApprovedRunsResume`; `docs/support-matrix.md:52`: "continues approved runs after a reboot or interruption" |
| `cli/main.rs:2593` | a second review drops artifacts after the review screen | `ReviewIsFinal`; `README.md:91`: "remains the final checkpoint before package creation" |
| `cli/main.rs:2199` | a document whose object key redaction would change is flagged at its root and written again with the key: `unsafe_value_paths` (`:2271`) looks at values | `KeysAreScreened`; `main.rs:2202`: "drops any secret-like comment or header bytes" |
| `cli/tui.rs:579` | the custom selection survives a rescan that makes a component unsafe, or removes it | `SafetyIsFixed`, `SelectionIsListed`; `tui.rs:2114`: "Safety is fixed: secrets, large data and unknown binaries excluded." |
| `discovery/dedup.rs:45` | edges are passed beside the components that embed them and counted twice: a scan between half and the whole of MAX_EDGES passes the coordinator and fails here | `WithinBoundIsAccepted`; `dedup.rs:50`: "exceeds the reviewed bound" |
| `discovery/dedup.rs:488` | the identity of a merged group may equal that of another component | `InventoryIdsAreUnique`; `domain/selection.rs:214`: "The inventory contains duplicate component IDs" |
| `windows/process.rs:320` | after the timeout the readers are joined, for as long as a descendant holds the pipes | `docs/security.md:56`: "It bounds timeout and output" |
| `helper/main.rs:254` | the helper opens `journal.sqlite3`, the application writes `journal.sqlite` | `HelperFindsTheJournal`; `docs/recovery.md:172` |
| `src-tauri/src/commands.rs:295` | a refused registration has replaced the running job's token | `CancelReachesJob`; `state.svelte.ts:468`: "Cancellation requested" |
| `ui/src/lib/state.svelte.ts:291` | a scan is stored as the last run and then resumed | `LastIsRestore`; `state.svelte.ts:442` |
| `handlers/docker.rs:287` | a volume that appears after the inspection is extracted over; `:264` takes any failure of the inspection for absence | `NeverReplaced`; `docker.rs:266`: "its data cannot be replaced automatically" |
| `handlers/environment.rs:358` | after a failed broadcast the retry is satisfied and does not broadcast | `ChangesAreBroadcast`; `environment.rs:53` |
| `handlers/environment.rs:377` | entries added to Path between read and write are lost | `OthersAreKept`; spec `:810`: "user PATH merge" |
| `handlers/environment.rs:136` | an expandable Path is written back as REG_SZ | `ExpansionIsKept`; spec `:809`: "preserve raw token text" |
| `handlers/harnesses.rs:255` | what the harness wrote after the parse is lost | `NothingIsLost`; spec `:68`: "inspect, compare, merge, back up, and preserve" |
| `handlers/harnesses.rs:721`, `:754` | a resolved working directory and the path of an address are written without the check for secrets that commands, arguments and variables get | `PlacesAreScreened`; spec `:929`: "Secret-bearing literals in MCP arguments, endpoints, or working-directory metadata are treated the same way." |
| `handlers/harnesses.rs:250` | a registration that leaves secrets out waits again after every answer | spec `:2463`: "users to resolve blockers without restarting a run" |
| `handlers/mod.rs:225` | the free space of the best volume is checked, not of the one written | `StagingFits`; `mod.rs:217`: "cannot prove enough free" |
| `handlers/providers.rs:978` | id and version are looked for anywhere in the listing | `CompletedIsInstalled`; `providers.rs:330`: "exact verification" |
| `handlers/providers.rs:297` | a cancelled verification forgets the reboot | `RebootComesFirst`; spec `:2416` |
| `handlers/providers.rs:651` | scoped JavaScript packages are rejected before the branch that allows them | `ScopedIsValid`; `tests/javascript.rs:59` |
| `handlers/providers.rs:436` | licences are accepted by the agreement for sources alone | `LicenseIsExplicit`; spec `:2418` |
| `handlers/browsers.rs:85` | the browser may start between the check and the write | `WritesAreQuiet`; `browsers.rs:91`: "close the browser before restore" |
| `windows/registry.rs:370` | the longest subkey name of a root does not fit its buffer | `OpenableIsRead`; `registry.rs:247` |
| `windows/registry.rs:369` | a deletion during the enumeration hides the next key | `NoKeyIsLost`; `registry.rs:159`: "instead of silently dropping a key" |
| `windows/registry.rs:578` | name and data of a value come from two calls by index | `DataBelongsToName`; `registry.rs:3`: "decoded only according to their declared type" |
| `discovery/providers/wsl.rs:328` | a distribution that stopped after the listing is started by the query | `NeverStarted`; `wsl.rs:295`: "discovery never starts them implicitly" |
| `discovery/providers/wsl.rs:1126` | a plan uses metadata that a later discovery has overwritten | `PlanFitsDiscovery`; `wsl.rs:357`: "only when selection has supplied a verified export object" |

## 6. Not modelled

- The other discovery adapters (package managers, harnesses, editors, browsers,
  Docker): each parses the output of a tool or a file into components in one
  pass. They have no state and no interleaving; what they may return is the
  nondeterministic input of `Discovery`. `discovery/generic.rs` is heuristics
  over names.
- Text: redaction patterns, normalisation, wording, serialised schemas, argument
  parsing, rendering of the terminal and the desktop, themes and accessibility.
- Cryptography, hashing, compression and the archive format, abstracted to values
  that match or do not; SQLite, COM, Win32 and the shells, abstracted to calls
  that succeed, fail or take effect without saying so. A failing SQLite call writes
  nothing (`JournalFails`).
- Reads without state: known folders, PE headers, optional features, keyboard
  layouts, the secret prompt.

- Steps that are made coarser: `WslDiscovery.Remember` stores the metadata of a
  discovery at once, while the adapter inserts them component by component and
  overwrites them when it normalises (`wsl.rs:999`, `:1057`, `:1311`);
  `MAX_EVIDENCE_PER_ADAPTER` (`coordinator.rs:324`) and the malformed graphs that
  `dedup.rs` refuses beside too many edges; the sizes of single metadata documents
  (`writer.rs:748`, `reader.rs:570`).
- `GraphIsSound` says nothing of identifiers that two merged groups share
  (`InventoryIdsAreUnique`, section 5) nor of dependencies on what was not observed.

## 7. Plan

The components that carry state are modelled, and the core, planning and reporting,
the store, the vault, creation, the handlers, the enumerations and the front ends
are proved safe. What is left, in this order:

1. `DiscoveryIsHonest`: a ledger per phase, with the adapters that have not
   answered.
2. Of `CollectionIsExact` the reading of one file: that what is collected is what
   one reading returned, although the file changes between readings.
