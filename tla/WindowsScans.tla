---------------------------- MODULE WindowsScans ----------------------------
(***************************************************************************)
(* The enumerations of Windows (reforge-platform-windows) and of WSL: the  *)
(* registry, the services, the scheduled tasks, the shell's inventories    *)
(* and the distributions. They share no state in the program, and a        *)
(* behaviour is one of them at work; names that two of them use for state  *)
(* of their own are one variable here.                                     *)
(***************************************************************************)
EXTENDS Naturals, FiniteSets, Sequences

CONSTANTS
    \* RegistryScan, ServiceScan
    KeyRegistries, Roots, RunRoot, MaxValueBytes, MaxNameChars, NewValue, RegistryChanges,
    Managers, NewServices, MaxServices, MaxBuffer, ServiceChanges,
    \* TaskScan, ShellInventory, WslDiscovery
    Hierarchies, RootFolder, MaxTasks, MaxFolders, MaxTaskDepth, Contents, MaxItems,
    Worlds, Exports, MaxRounds, UserChanges

VARIABLES part,
    warnings, pc, changes, registry, at, subkeys, index, key, value, info,
    values, observations, errors, manager, resume, capacity, records,
    stable, folders, stack, source, roots, candidates, inspected,
    observed, world, round, listing, exports, features, toQuery, configs,
    discoveries, metadata, plans, started

Reg == INSTANCE RegistryScan WITH Registries <- KeyRegistries, MaxChanges <- RegistryChanges
Svc == INSTANCE ServiceScan WITH MaxChanges <- ServiceChanges
Task == INSTANCE TaskScan
Shell == INSTANCE ShellInventory
Wsl == INSTANCE WslDiscovery WITH MaxChanges <- UserChanges

(* The inputs that the parts are given.                                    *)
ASSUME RegistryAssumption == Reg!RegistryAssumption
ASSUME ServiceAssumption == Svc!ServiceAssumption
ASSUME TaskAssumption == Task!TaskAssumption
ASSUME ShellAssumption == Shell!ShellAssumption
ASSUME WslAssumption == Wsl!WslAssumption

(* The variables of the other parts, which a part leaves alone.            *)
besidesRegistry ==
    <<warnings, manager, resume, capacity, records, stable, folders,
      stack, source, roots, candidates, inspected, observed, world, round,
      listing, exports, features, toQuery, configs, discoveries, metadata,
      plans, started>>
besidesServices ==
    <<warnings, registry, at, subkeys, index, key, value, info, values,
      folders, stack, source, roots, candidates, inspected, observed,
      world, round, listing, exports, features, toQuery, configs,
      discoveries, metadata, plans, started>>
besidesTasks ==
    <<warnings, changes, registry, at, subkeys, index, key, value, info,
      values, manager, resume, capacity, records, stable, source, roots,
      candidates, inspected, observed, world, round, listing, exports,
      features, toQuery, configs, discoveries, metadata, plans, started>>
besidesShell ==
    <<warnings, changes, registry, subkeys, index, key, value, info,
      values, observations, manager, resume, capacity, records, stable,
      folders, stack, world, round, listing, exports, features, toQuery,
      configs, discoveries, metadata, plans, started>>
besidesWsl ==
    <<registry, at, subkeys, index, key, value, info, values,
      observations, errors, manager, resume, capacity, records, stable,
      folders, stack, source, roots, candidates, inspected, observed>>

(* One part is chosen and runs; the variables of the others are "off".     *)
RegistryIsOff ==
    /\ registry = "off"
    /\ subkeys = "off"
    /\ index = "off"
    /\ key = "off"
    /\ value = "off"
    /\ info = "off"
    /\ values = "off"
ServicesAreOff ==
    /\ manager = "off"
    /\ resume = "off"
    /\ capacity = "off"
    /\ records = "off"
    /\ stable = "off"
TasksAreOff ==
    /\ folders = "off"
    /\ stack = "off"
ShellIsOff ==
    /\ source = "off"
    /\ roots = "off"
    /\ candidates = "off"
    /\ inspected = "off"
    /\ observed = "off"
WslIsOff ==
    /\ world = "off"
    /\ round = "off"
    /\ listing = "off"
    /\ exports = "off"
    /\ features = "off"
    /\ toQuery = "off"
    /\ configs = "off"
    /\ discoveries = "off"
    /\ metadata = "off"
    /\ plans = "off"
    /\ started = "off"

OffRegistry ==
    /\ ServicesAreOff
    /\ TasksAreOff
    /\ ShellIsOff
    /\ WslIsOff
    /\ warnings = "off"
OffServices ==
    /\ RegistryIsOff
    /\ TasksAreOff
    /\ ShellIsOff
    /\ WslIsOff
    /\ warnings = "off"
    /\ at = "off"
OffTasks ==
    /\ RegistryIsOff
    /\ ServicesAreOff
    /\ ShellIsOff
    /\ WslIsOff
    /\ warnings = "off"
    /\ changes = "off"
    /\ at = "off"
OffShell ==
    /\ RegistryIsOff
    /\ ServicesAreOff
    /\ TasksAreOff
    /\ WslIsOff
    /\ warnings = "off"
    /\ changes = "off"
    /\ observations = "off"
OffWsl ==
    /\ RegistryIsOff
    /\ ServicesAreOff
    /\ TasksAreOff
    /\ ShellIsOff
    /\ at = "off"
    /\ observations = "off"
    /\ errors = "off"

WinInit ==
    \/ part = "registry" /\ Reg!RsInit /\ OffRegistry
    \/ part = "services" /\ Svc!SsInit /\ OffServices
    \/ part = "tasks" /\ Task!TsInit /\ OffTasks
    \/ part = "shell" /\ Shell!SiInit /\ OffShell
    \/ part = "wsl" /\ Wsl!WdInit /\ OffWsl

RegistryStep == part = "registry" /\ Reg!RsNext /\ UNCHANGED <<part, besidesRegistry>>
ServiceStep == part = "services" /\ Svc!SsNext /\ UNCHANGED <<part, besidesServices>>
TaskStep == part = "tasks" /\ Task!TsNext /\ UNCHANGED <<part, besidesTasks>>
ShellStep == part = "shell" /\ Shell!SiNext /\ UNCHANGED <<part, besidesShell>>
WslStep == part = "wsl" /\ Wsl!WdNext /\ UNCHANGED <<part, besidesWsl>>

WinNext == RegistryStep \/ ServiceStep \/ TaskStep \/ ShellStep \/ WslStep

winVars ==
    <<part, warnings, pc, changes, registry, at, subkeys, index, key,
      value, info, values, observations, errors, manager, resume,
      capacity, records, stable, folders, stack, source, roots,
      candidates, inspected, observed, world, round, listing, exports,
      features, toQuery, configs, discoveries, metadata, plans, started>>

WinSpec == WinInit /\ [][WinNext]_winVars

(***************************************************************************)
(* Properties                                                              *)
(***************************************************************************)
(* A service that was there throughout is observed or has an error, and    *)
(* none is observed twice, although others come and go and the pages and   *)
(* buffers shift; in a registry at rest every key is observed or has an    *)
(* error, and a value that grows while it is read is shown whole or not at *)
(* all; every task within the limits, every item of the shell and every    *)
(* listed distribution is observed or has an error (the Windows            *)
(* enumerations, wsl.rs).                                                  *)
ScansAreAccountedFor ==
    /\ part = "registry" => Reg!StillIsAccountedFor /\ Reg!DataIsWhole
    /\ part = "services" => Svc!StableIsObserved /\ Svc!RecordIsAccountedFor /\ Svc!NoServiceTwice
    /\ part = "tasks" => Task!TaskIsAccountedFor /\ Task!TasksAreBounded
    /\ part = "shell" => Shell!ItemIsAccountedFor
    /\ part = "wsl" => Wsl!QueryIsAccountedFor

(* A restore plan of a distribution imports only a verified export and     *)
(* has its features and the subsystem before it (providers/wsl.rs).        *)
WslPlansAreSound == part = "wsl" => Wsl!ImportIsVerified /\ Wsl!PlanIsOrdered
=============================================================================
