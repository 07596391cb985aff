---------------------------- MODULE MCHandlers -----------------------------
(***************************************************************************)
(* The restore handlers, each against its own environment: the user's      *)
(* edits, other programs, failing calls and killed processes. A behaviour  *)
(* is one handler at work; "write" is FileReplace, in every mode.          *)
(* The files, subsystems, variables, servers, payloads, packages and       *)
(* profiles are parameters, with values from the configuration.            *)
(***************************************************************************)
EXTENDS FileReplace, TLC

CONSTANTS
    SubOperations, Archive, Owner, MaxAttempts, MaxOwner,   \* of SubsystemRestore
    Servers, Documents, Order, HarnessEdits,                \* of McpRegistration
    BpOperations, MaxStarts,                                \* of BrowserProfile
    \* of UserEnvironment
    UserOperations, UserRegistries, Foreign, Key, Expandable, Invalid, Secret, MaxEntries, MaxForeign,
    \* of ArtifactStaging
    Procs, Bytes, Packages, ChunkBytes, MaxBytes, Tries, Volumes, TempVolume, FreeBytes, MaxNames,
    MaxStaged, MaxFailures, MaxCrashes,
    Requests, InstallMachines, TextContains, Refuses        \* of PackageInstall

VARIABLES part,
    op, machine, facts, pc, outcome, cancel, attempts, acts, late, lost,
    registry, desired, seen, foreign, owed, server, doc, read, pkg, files,
    proc, free, failures, crashes, req, pending, available, reboot, running,
    lock, written, starts, removed

MCPackage == {"pkg"}
MCOriginal == {"orig"}
MCEdits == {"e1", "e2"}

(***************************************************************************)
(* The subsystem handlers on one operation of each shape.                  *)
(***************************************************************************)

SubShape(kind, named, image, tagged, version) ==
    [kind |-> kind, named |-> named, image |-> image, tagged |-> tagged, version |-> version]

MCSubOperations ==
    {SubShape("image", TRUE, i, t, 0) : i \in {"i1", "none"}, t \in BOOLEAN} \cup
    {SubShape("volume", n, "none", FALSE, 0) : n \in BOOLEAN} \cup
    {SubShape("wsl", TRUE, "none", FALSE, v) : v \in {0, 2, 3}}

(***************************************************************************)
(* The environment handler on a Path of up to three entries.  "a" and "A"  *)
(* differ in case only; "u" contains a variable.                           *)
(***************************************************************************)

EnvEntries == {"a", "A", "b", "c", "u", "", "!", "s", "x"}
EnvKey == [e \in EnvEntries |-> IF e = "A" THEN "a" ELSE e]

EnvOperation(kind, name, source, value) ==
    [kind |-> kind, name |-> name, source |-> source, value |-> value]

EnvOperations ==
    {EnvOperation("append", "Path", "W", v) : v \in {<<"A">>, <<"b", "a">>, <<"c", "c">>, <<"!">>}} \cup
    {EnvOperation("reference", n, "W", <<>>) : n \in {"V", "W"}} \cup
    {EnvOperation("literal", "V", "W", v) : v \in {<<"a">>, <<"s">>, <<"!">>}} \cup
    {EnvOperation("secret", "V", "W", <<>>)}

EnvValue(type, v) == [type |-> type, value |-> v]

EnvAbsent == EnvValue("none", <<>>)

EnvRegistries ==
    {("Path" :> p) @@ ("V" :> v) @@ ("W" :> w) :
        p \in {EnvAbsent, EnvValue("sz", <<"a", "", "A">>), EnvValue("sz", <<"b", "a">>),
               EnvValue("expand", <<"u", "a">>), EnvValue("sz", <<"a", "b", "c">>), EnvValue("other", <<>>)},
        v \in {EnvAbsent, EnvValue("sz", <<"a">>)},
        w \in {EnvAbsent, EnvValue("sz", <<"b">>)}}

(***************************************************************************)
(* The MCP handler on two containers, two servers and two variables.       *)
(***************************************************************************)

McpServer(shape, source, env, args, place, needs) ==
    [name |-> "s", shape |-> shape, source |-> source, env |-> env, args |-> args,
     place |-> place, needs |-> needs]

MCServers ==
    {McpServer("reviewed", "c2", ("v" :> x) @@ ("w" :> "literal"), "none", "literal", {}) :
        x \in {"literal", "variable", "odd", "secret", "unknown"}} \cup
    {McpServer("reviewed", "c2", <<>>, a, p, {}) :
        a \in {"literal", "odd", "secret"}, p \in {"literal", "odd", "unknown"}} \cup
    {McpServer("strange", "c2", <<>>, "none", "literal", {}),
     McpServer("reviewed", "none", <<>>, "none", "literal", {}),
     McpServer("reviewed", "invalid", <<>>, "none", "literal", {}),
     McpServer("reviewed", "c2", "v" :> "variable", "none", "literal", {"runtime"}),
     McpServer("reviewed", "c2", <<>>, "none", "literal", {"package"})}

McpFile(state, body, exists) == [file |-> exists, state |-> state, body |-> body]

MCOrder == <<"c1", "c2", "c3">>

McpMine == ("s" :> (("type" :> "literal") @@ ("cwd" :> "literal") @@ ("x" :> "variable")))
McpTheirs == ("t" :> ("type" :> "literal"))

MCDocuments ==
    {McpFile("parsed", <<>>, FALSE), McpFile("unparsed", <<>>, TRUE),
     McpFile("odd", <<>>, TRUE), McpFile("parsed", <<>>, TRUE),
     McpFile("parsed", "c1" :> McpTheirs, TRUE),
     McpFile("parsed", "c3" :> (McpMine @@ McpTheirs), TRUE),
     McpFile("parsed", ("c1" :> McpTheirs) @@ ("c3" :> McpMine), TRUE)}

MCHarnessEdits ==
    {[container |-> "c1", name |-> "t", entry |-> ("type" :> "variable")],
     [container |-> "c3", name |-> "s", entry |-> ("v" :> "literal")]}

(***************************************************************************)
(* Staging of payloads of up to three bytes in chunks of two, by two       *)
(* processes with three names each.                                        *)
(***************************************************************************)

StIx(id, bytes, type) == [id |-> id, bytes |-> bytes, type |-> type]
StWhole(id) == [bytes |-> id, ok |-> TRUE, same |-> TRUE]
StAB == <<"a", "b">>
StA == <<"a">>
StM == <<"m">>

StManifest(size, type, canonical, chunks) ==
    [size |-> size, type |-> type, canonical |-> canonical, chunks |-> chunks]

StGoodIndex == <<StIx(StM, 9, "json"), StIx(StAB, 2, "archive"), StIx(StA, 1, "archive")>>
StGoodManifest == StManifest(3, "archive", TRUE, <<[id |-> StAB, bytes |-> 2], [id |-> StA, bytes |-> 1]>>)
StGoodSource == [id \in {StAB, StA, StM} |-> StWhole(id)]

StPackage(object, index, manifest, source) ==
    [object |-> object, index |-> index, manifests |-> [o \in {StM} |-> manifest], source |-> source]

StGood == StPackage(StM, StGoodIndex, StGoodManifest, StGoodSource)

(* The source delivers other, fewer or more bytes, fails, or describes     *)
(* another object.                                                         *)
StBadSources ==
    {[StGoodSource EXCEPT ![StAB] = x] :
        x \in {StWhole(<<"a", "a">>), StWhole(StA), StWhole(<<"a", "b", "a">>),
               [StWhole(StAB) EXCEPT !.ok = FALSE], [StWhole(StAB) EXCEPT !.same = FALSE]}}

StChunk(id, n) == [id |-> id, bytes |-> n]

StBadManifests ==
    {StManifest(2, "archive", TRUE, StGoodManifest.chunks), [StGoodManifest EXCEPT !.canonical = FALSE],
     [StGoodManifest EXCEPT !.type = "json"], StManifest(0, "archive", TRUE, <<>>),
     StManifest(3, "archive", TRUE, <<StChunk(StA, 1), StChunk(StAB, 2)>>),
     StManifest(3, "archive", TRUE, <<StChunk(StA, 2), StChunk(StA, 1)>>),
     StManifest(2, "archive", TRUE, <<StChunk(StM, 2)>>), StManifest(4, "archive", TRUE, <<StChunk(StAB, 2), StChunk(StAB, 2)>>)}

StPackages ==
    {StGood, StPackage(StAB, StGoodIndex, StGoodManifest, StGoodSource),
     StPackage(StM, Append(StGoodIndex, StIx(StAB, 2, "archive")), StGoodManifest, StGoodSource),
     StPackage(StM, Tail(StGoodIndex), StGoodManifest, StGoodSource)}
    \cup {StPackage(StM, StGoodIndex, StGoodManifest, s) : s \in StBadSources}
    \cup {StPackage(StM, StGoodIndex, m, StGoodSource) : m \in StBadManifests}

(***************************************************************************)
(* The install handlers on the requests of every provider.                 *)
(***************************************************************************)

PiRequest(provider, source) ==
    [provider |-> provider, id |-> "p", shape |-> "plain", version |-> "1.1", source |-> source,
     flags |-> {}, hash |-> FALSE, arch |-> TRUE, url |-> "public"]

PiBase == {PiRequest(p, s) : p \in {"winget", "chocolatey", "scoop", "npm", "rust", "dotnet", "python",
                               "go", "powershell", "vscode", "other"},
                         s \in {"none", "partial", "reviewed", "custom"}}

PiWin == PiRequest("winget", "reviewed")

PiRequests ==
    PiBase \cup
    {[PiWin EXCEPT !.shape = x] : x \in {"option", "backslash", "path"}} \cup
    {[PiWin EXCEPT !.version = v] : v \in {"none", "latest"}} \cup
    {[PiWin EXCEPT !.hash = TRUE], [PiWin EXCEPT !.arch = FALSE], [PiWin EXCEPT !.url = "credentials"],
     [PiRequest("vscode", "none") EXCEPT !.version = "none"]} \cup
    {[r EXCEPT !.flags = {f}] : r \in {PiWin, PiRequest("npm", "none"), PiRequest("chocolatey", "none")},
                                f \in {"accept_source", "accept_package", "silent"}}

PiEntry(id, version, source) == [id |-> id, version |-> version, source |-> source]

PiMachines == {{}, {PiEntry("p", "1.1", "custom")}, {PiEntry("p", "2.0", "reviewed"), PiEntry("q", "1.1", "none")},
               {PiEntry("p", "1.1", "reviewed")}}

PiWords == {"p", "q", "1.1", "2.0"}
PiExact == {<<w, w>> : w \in PiWords}

(* The text of a version may contain another one.                          *)

PiOverlap == PiExact \cup {<<"1.10", "1.1">>}

(***************************************************************************)
(* All kinds of operations on portable, protected and other files.         *)
(***************************************************************************)

MCBpOperations ==
    {[kind |-> k, policy |-> p, place |-> "chromium", file |-> f] :
        k \in {"write", "json", "toml"}, p \in {"preserve", "replace"},
        f \in {"bookmarks", "preferences", "cookies", "login data"}} \cup
    {[kind |-> k, policy |-> p, place |-> "firefox", file |-> f] :
        k \in {"write", "json"}, p \in {"append", "replace"},
        f \in {"prefs.js", "places.sqlite", "extensions.json", "logins.json"}} \cup
    {[kind |-> "write", policy |-> "manual", place |-> "other", file |-> "settings"]}

-----------------------------------------------------------------------------
Sub == INSTANCE SubsystemRestore WITH Operations <- SubOperations
Env == INSTANCE UserEnvironment
    WITH Operations <- UserOperations, Registries <- UserRegistries
Mcp == INSTANCE McpRegistration WITH Edits <- HarnessEdits
Staging == INSTANCE ArtifactStaging
Install == INSTANCE PackageInstall WITH Machines <- InstallMachines, Contains <- TextContains
Browser == INSTANCE BrowserProfile WITH Operations <- BpOperations

ASSUME SubsystemAssumption == Sub!SubAssumption
ASSUME ServerAssumption == Mcp!McpAssumption
ASSUME UserAssumption == Env!EnvironmentAssumption
ASSUME PayloadAssumption == Staging!StAssumption

(* The variables that one part alone has, and those that a part leaves     *)
(* alone.                                                                  *)
ofFile == <<mode, dest, temp, baks, litter, row, h, owned>>
ofSubsystem == <<cancel, acts, late, lost, removed>>
ofEnvironment == <<registry, desired, seen, foreign, owed>>
ofMcp == <<server, doc, read>>
ofStaging == <<pkg, files, proc, free, failures, crashes>>
ofInstall == <<req, pending, available, reboot>>
ofBrowser == <<running, lock, written, starts>>

besidesFile ==
    <<ofSubsystem, ofEnvironment, ofMcp, ofStaging, ofInstall, ofBrowser, op,
      machine, facts, pc, outcome, attempts>>
besidesSubsystem ==
    <<ofFile, ofEnvironment, ofMcp, ofStaging, ofInstall, ofBrowser, faults,
      edits>>
besidesEnvironment ==
    <<ofFile, ofSubsystem, ofMcp, ofStaging, ofInstall, ofBrowser, faults,
      edits, machine, facts>>
besidesMcp ==
    <<ofFile, ofSubsystem, ofEnvironment, ofStaging, ofInstall, ofBrowser,
      faults, op, machine>>
besidesStaging ==
    <<ofFile, ofSubsystem, ofEnvironment, ofMcp, ofInstall, ofBrowser, faults,
      edits, op, machine, facts, pc, outcome, attempts>>
besidesInstall ==
    <<ofFile, ofSubsystem, ofEnvironment, ofMcp, ofStaging, ofBrowser, edits,
      op, attempts>>
besidesBrowser ==
    <<ofFile, ofSubsystem, ofEnvironment, ofMcp, ofStaging, ofInstall, faults,
      edits, machine, facts, attempts>>

(* One part is chosen and runs; the variables of the others are "off".     *)
FileIsOff ==
    /\ mode = "off" /\ dest = "off" /\ temp = "off" /\ baks = "off"
    /\ litter = "off" /\ row = "off" /\ h = "off" /\ owned = "off"
SubsystemIsOff ==
    /\ cancel = "off" /\ acts = "off" /\ late = "off" /\ lost = "off"
    /\ removed = "off"
EnvironmentIsOff ==
    /\ registry = "off" /\ desired = "off" /\ seen = "off" /\ foreign = "off"
    /\ owed = "off"
McpIsOff ==
    /\ server = "off" /\ doc = "off" /\ read = "off"
StagingIsOff ==
    /\ pkg = "off" /\ files = "off" /\ proc = "off" /\ free = "off"
    /\ failures = "off" /\ crashes = "off"
InstallIsOff ==
    /\ req = "off" /\ pending = "off" /\ available = "off" /\ reboot = "off"
BrowserIsOff ==
    /\ running = "off" /\ lock = "off" /\ written = "off" /\ starts = "off"

OffFile ==
    /\ SubsystemIsOff /\ EnvironmentIsOff /\ McpIsOff /\ StagingIsOff
    /\ InstallIsOff /\ BrowserIsOff /\ op = "off" /\ machine = "off"
    /\ facts = "off" /\ pc = "off" /\ outcome = "off" /\ attempts = "off"
OffSubsystem ==
    /\ FileIsOff /\ EnvironmentIsOff /\ McpIsOff /\ StagingIsOff
    /\ InstallIsOff /\ BrowserIsOff /\ faults = "off" /\ edits = "off"
OffEnvironment ==
    /\ FileIsOff /\ SubsystemIsOff /\ McpIsOff /\ StagingIsOff /\ InstallIsOff
    /\ BrowserIsOff /\ faults = "off" /\ edits = "off" /\ machine = "off"
    /\ facts = "off"
OffMcp ==
    /\ FileIsOff /\ SubsystemIsOff /\ EnvironmentIsOff /\ StagingIsOff
    /\ InstallIsOff /\ BrowserIsOff /\ faults = "off" /\ op = "off"
    /\ machine = "off"
OffStaging ==
    /\ FileIsOff /\ SubsystemIsOff /\ EnvironmentIsOff /\ McpIsOff
    /\ InstallIsOff /\ BrowserIsOff /\ faults = "off" /\ edits = "off"
    /\ op = "off" /\ machine = "off" /\ facts = "off" /\ pc = "off"
    /\ outcome = "off" /\ attempts = "off"
OffInstall ==
    /\ FileIsOff /\ SubsystemIsOff /\ EnvironmentIsOff /\ McpIsOff
    /\ StagingIsOff /\ BrowserIsOff /\ edits = "off" /\ op = "off"
    /\ attempts = "off"
OffBrowser ==
    /\ FileIsOff /\ SubsystemIsOff /\ EnvironmentIsOff /\ McpIsOff
    /\ StagingIsOff /\ InstallIsOff /\ faults = "off" /\ edits = "off"
    /\ machine = "off" /\ facts = "off" /\ attempts = "off"

MCInit ==
    \/ part = "write" /\ Init /\ OffFile
    \/ part = "subsystem" /\ Sub!SubInit /\ OffSubsystem
    \/ part = "environment" /\ Env!EnvInit /\ OffEnvironment
    \/ part = "mcp" /\ Mcp!McpInit /\ OffMcp
    \/ part = "staging" /\ Staging!StInit /\ OffStaging
    \/ part = "install" /\ Install!PiInit /\ OffInstall
    \/ part = "browser" /\ Browser!BpInit /\ OffBrowser

WriteStep == part = "write" /\ Next /\ UNCHANGED <<part, besidesFile>>
SubsystemStep == part = "subsystem" /\ Sub!SubNext /\ UNCHANGED <<part, besidesSubsystem>>
EnvironmentStep == part = "environment" /\ Env!EnvNext /\ UNCHANGED <<part, besidesEnvironment>>
McpStep == part = "mcp" /\ Mcp!McpNext /\ UNCHANGED <<part, besidesMcp>>
StagingStep == part = "staging" /\ Staging!StNext /\ UNCHANGED <<part, besidesStaging>>
InstallStep == part = "install" /\ Install!PiNext /\ UNCHANGED <<part, besidesInstall>>
BrowserStep == part = "browser" /\ Browser!BpNext /\ UNCHANGED <<part, besidesBrowser>>

MCNext ==
    \/ WriteStep
    \/ SubsystemStep
    \/ EnvironmentStep
    \/ McpStep
    \/ StagingStep
    \/ InstallStep
    \/ BrowserStep

mcVars ==
    <<part, mode, dest, temp, baks, litter, row, h, owned, faults, edits, op,
      machine, facts, pc, outcome, cancel, attempts, acts, late, lost,
      registry, desired, seen, foreign, owed, server, doc, read, pkg, files,
      proc, free, failures, crashes, req, pending, available, reboot, running,
      lock, written, starts, removed>>

MCSpec == MCInit /\ [][MCNext]_mcVars

(***************************************************************************)
(* Properties                                                              *)
(***************************************************************************)
(* Through failed calls, rollbacks, crashes and concurrent edits, what a   *)
(* destination held stays on disk, no partial file is published, the       *)
(* backup the journal names is there, and a completed replacement names    *)
(* the backup it made (atomic_replace and its callers).                    *)
FilesAreKept ==
    /\ [](part = "write" => FileTypeOK /\ OriginalRetained /\ WholeFiles /\ RecordedBackupExists)
    /\ [][part = "write" => CompletionRecordsBackup]_mcVars

(* A volume, image or distribution is called restored only when it is (a   *)
(* volume: unless the owner removed it once it was filled), and somebody   *)
(* else's volume is overwritten only if the look for it could not show it, *)
(* over attempts that were cancelled, failed or killed                     *)
(* (handlers/docker.rs, handlers/wsl.rs).                                  *)
SubsystemsAreRestored ==
    [][part = "subsystem" =>
         /\ Sub!CompletedIsWhole /\ Sub!CompletedIsIdentical
         /\ Sub!DistributionIsRight /\ Sub!ForeignIsKept]_mcVars

(* Writes to the user's environment merge Path without loss, reordering or *)
(* repetition, and copy no secret (handlers/environment.rs).               *)
EnvironmentIsMerged ==
    [][part = "environment" => Env!PathIsMerged /\ Env!NoSecretIsCopied]_mcVars

(* Registering a server writes no secret (a working directory or address   *)
(* that only looks like one is written), keeps what the document had and   *)
(* adds no second container (handlers/harnesses.rs).                       *)
RegistrationIsSafe ==
    [][part = "mcp" => Mcp!NoSecretWritten' /\ Mcp!UnknownIsKept /\ Mcp!OneContainer]_mcVars

(* A handler works on whole staged archives and leaves none behind unless  *)
(* it was killed; what is skipped as installed is installed in the exact   *)
(* version, through all the stopped attempts (stage_subsystem_artifact,    *)
(* installed_exact).                                                       *)
PayloadsAreExact ==
    /\ part = "staging" => Staging!StagedIsWhole /\ Staging!FilesAreInUse /\ Staging!MatchesIsEquality
    /\ part = "install" => Install!ExactIsInstalled

(* Of a browser's profile only portable items are written, and only after  *)
(* a moment at which the browser was closed (handlers/browsers.rs).        *)
ProfilesAreSafe ==
    [][part = "browser" => Browser!ProtectedIsUntouched' /\ Browser!WritesBeginQuiet]_mcVars

(* docs/recovery.md: the original of a replaced destination is recorded in *)
(* the operation result.                                                   *)
OriginalsAreRecorded == part = "write" => ReplacedIsRecorded
=============================================================================
