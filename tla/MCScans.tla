------------------------------ MODULE MCScans ------------------------------
(***************************************************************************)
(* The scans that make the inventory: the coordinator with its merge, the  *)
(* collection of artifacts, the content probe, the Windows enumerations    *)
(* and the WSL adapter. A behaviour is one of them at work.                *)
(***************************************************************************)
EXTENDS WindowsScans, TLC

CONSTANTS
    \* Discovery
    ScanRegistries, Phases, MaxFound, MaxEdges, MaxEvidence, MaxWarnings,
    \* ArtifactCollect
    Selections, Disks, Sizes, MaxRequests, MaxArtifacts, MaxTotal, MaxFile, LargeThreshold,
    MaxDepth, ArtifactWarnings, ArtifactChanges, Bytes, MaxLength

VARIABLES
    entries, mode, phase, todo, attempted, succeeded, completed, queue,
    useful, ledger, omitted, found, events, cancelled, inventory,
    requests, disk, next, file, artifacts, total, touched, probe, seen

Scan == INSTANCE Discovery WITH Registries <- ScanRegistries

(* Identities are computed alike in every registry.                        *)
Ids == INSTANCE Discovery WITH Registries <- {}

(* Instances of Discovery for TLC: registries of up to four adapters in    *)
(* two phases, with observations that merge, conflict and bridge.          *)

DiNone == [id |-> 0, prov |-> 0, src |-> 0, fam |-> 0, prod |-> 0, role |-> 0, exe |-> 0, hash |-> 0,
         pub |-> 0, rec |-> 0, cert |-> 0, ver |-> 0, kind |-> 0, evidence |-> {}, deps |-> {},
         sensitive |-> FALSE, elevated |-> FALSE, size |-> 0, portability |-> "portable",
         reachable |-> FALSE, source |-> TRUE, conf |-> "Unknown", members |-> {}]
DiNamed(c) == [c EXCEPT !.id = Ids!FromIdentity(c)]
DiE(x, s, g) == [id |-> x, strength |-> s, group |-> g]
DiObs(es, cs) == [evidence |-> es, valid |-> TRUE, components |-> cs]
DiBad == [evidence |-> <<DiE(7, 50, 1)>>, valid |-> FALSE, components |-> <<>>]
DiA(i, p, res, slow, os) == [id |-> i, phase |-> p, available |-> TRUE, evidence |-> <<>>,
                           result |-> res, slow |-> slow, observations |-> os]

DiWinget == DiNamed([DiNone EXCEPT !.prov = 1, !.src = 1, !.exe = 1, !.hash = 1, !.rec = 1,
                             !.evidence = {1}, !.deps = {[to |-> 5110, required |-> TRUE]}])
DiScoop == DiNamed([DiNone EXCEPT !.prov = 2, !.src = 1, !.exe = 1, !.hash = 1, !.evidence = {2}])
DiLocal == DiNamed([DiNone EXCEPT !.exe = 1, !.hash = 1, !.evidence = {1, 2}, !.sensitive = TRUE])
DiRuntime == DiNamed([DiNone EXCEPT !.prod = 1, !.rec = 1, !.role = 1, !.kind = 2, !.elevated = TRUE,
                              !.evidence = {1, 4}])
DiNeeds == DiNamed([DiNone EXCEPT !.prod = 2, !.rec = 1, !.cert = 1, !.exe = 2, !.hash = 2, !.ver = 1,
                            !.evidence = {1, 3}, !.reachable = TRUE,
                            !.deps = {[to |-> DiRuntime.id, required |-> TRUE],
                                      [to |-> DiWinget.id, required |-> FALSE]}])
DiStore == DiNamed([DiNone EXCEPT !.fam = 1, !.pub = 1, !.exe = 2, !.hash = 2, !.ver = 2, !.size = 2])
DiOpaque == [DiNone EXCEPT !.id = Ids!OpaqueIds, !.evidence = {9}]

(* An ownerless observation that shares a tuple with each of two packages. *)
DiBridge == DiNamed([DiNone EXCEPT !.exe = 1, !.hash = 1, !.prod = 3, !.rec = 1, !.role = 1])
DiOther == DiNamed([DiNone EXCEPT !.prov = 2, !.src = 2, !.prod = 3, !.rec = 1, !.role = 1, !.evidence = {3}])

(* A family without publisher.                                             *)
DiHalf == DiNamed([DiNone EXCEPT !.fam = 1, !.exe = 3, !.hash = 3])

DiRegistries == {
    <<DiA(2, 1, "ok", TRUE, <<DiObs(<<DiE(1, 60, 1)>>, <<DiWinget>>), DiBad>>),
      DiA(1, 1, "ok", FALSE, <<DiObs(<<DiE(2, 50, 2)>>, <<DiScoop, DiLocal>>)>>),
      DiA(3, 2, r, FALSE, <<DiObs(<<DiE(3, 50, 3)>>, <<DiNeeds>>), DiObs(<<DiE(1, 60, 1)>>, <<DiRuntime>>)>>),
      [DiA(4, 2, "ok", FALSE, <<>>) EXCEPT !.available = av]>> :
        r \in {"ok", "error"}, av \in BOOLEAN}
    \cup {<<DiA(1, 1, "ok", FALSE, <<DiObs(<<DiE(1, 60, 1)>>, <<DiLocal, DiWinget>>)>>),
            DiA(1, 1, "ok", FALSE, <<DiObs(<<>>, <<DiScoop>>)>>),
            DiA(2, 2, "flood", TRUE, <<DiObs(<<>>, <<DiScoop>>)>>),
            DiA(3, 2, "ok", TRUE, <<DiObs(<<DiE(1, 61, 1)>>, <<DiStore, DiNeeds, DiOpaque>>)>>)>>,
          <<[DiA(1, 1, "ok", FALSE, <<DiObs(<<>>, <<DiStore>>)>>) EXCEPT !.evidence = <<DiE(1, 101, 1)>>],
            DiA(2, 2, "ok", FALSE, <<DiObs(<<DiE(1, 50, 1), DiE(2, 50, 2), DiE(3, 50, 3), DiE(4, 1, 1), DiE(5, 1, 1)>>,
                                       <<DiNeeds, DiLocal>>),
                                   DiObs(<<>>, <<DiWinget, DiRuntime, DiScoop, DiStore>>)>>)>>}
    \cup {<<DiA(1, 1, "ok", FALSE, <<DiObs(<<>>, <<DiNeeds, DiWinget>>), DiObs(<<>>, <<DiNeeds>>)>>)>>}

(* Every triple of observations, in one phase.                             *)
DiSamples == {DiWinget, DiScoop, DiLocal, DiNeeds, DiStore, DiRuntime, DiOpaque, DiHalf, DiBridge, DiOther}
DiRecorded == <<DiE(1, 60, 1), DiE(2, 50, 2), DiE(3, 40, 3), DiE(4, 60, 1)>>
DiTriples == {<<DiA(1, 1, "ok", FALSE, <<DiObs(DiRecorded, <<a, b, c>>)>>)>> : a, b, c \in DiSamples}

(***************************************************************************)
(* Overlapping selections in a tree with two directories.                  *)
(***************************************************************************)

AcNode(kind, size, opens, class) == [kind |-> kind, size |-> size, opens |-> opens, class |-> class]
AcDir == AcNode("directory", 0, TRUE, "none")

AcD == <<"d">>
AcE == <<"d", "e">>
AcF == <<"d", "f">>
AcG == <<"d", "e", "g">>
AcH == <<"h">>
AcJ == <<"d", "j">>

AcTree(f, g, h, j) == AcD :> AcDir @@ AcE :> AcDir @@ AcF :> f @@ AcG :> g @@ AcH :> h @@ AcJ :> j

AcDisks ==
    {AcTree(AcNode("file", 1, TRUE, "text"), AcNode("file", n, o, "unknown"), AcNode("file", m, TRUE, "unknown"),
          AcNode("reparse", 0, TRUE, "none")) : n \in {1, 3}, m \in {2, 4}, o \in BOOLEAN} \cup
    {AcTree(AcNode("file", 0, TRUE, "text"), AcNode("file", 1, TRUE, "text"), AcDir, AcNode("file", 2, TRUE, "text"))}

AcAsk(path, policy) == [path |-> path, policy |-> policy]

AcSelections ==
    {<<AcAsk(AcD, "config"), AcAsk(AcF, "secret")>>, <<AcAsk(AcF, "secret"), AcAsk(AcD, "large_opt_in"), AcAsk(AcH, "config")>>,
     <<AcAsk(AcH, "manual"), AcAsk(AcE, "config"), AcAsk(<<"x">>, "config")>>, <<AcAsk(AcG, "manual"), AcAsk(AcD, "large_opt_in")>>,
     <<AcAsk(AcJ, "config"), AcAsk(AcH, "large_opt_in"), AcAsk(AcD, "config"), AcAsk(AcG, "config")>>}

(***************************************************************************)
(* The bytes at the edges of every range the probe tells apart.            *)
(***************************************************************************)

CpBytes == {0, 10, 13, 127, 128, 143, 144, 159, 160, 191, 192, 194, 224, 225, 237, 240, 243, 244, 245}

(***************************************************************************)
(* Two distributions, one perhaps of unknown version; every kind of export.*)
(***************************************************************************)

WdAt(state, version) == [state |-> state, version |-> version]
WdWorlds == {"a" :> WdAt(s, v) @@ "b" :> WdAt("running", 1) : s \in {"running", "stopped"}, v \in {0, 2}}

WdExport(artifact, result) == [artifact |-> artifact, result |-> result]
WdExports ==
    {"a" :> WdExport(x, "ok") : x \in {"none", "plain", "export", "verified"}} \cup
    {"a" :> WdExport("verified", r) : r \in {"none", "failed", "cancelled"}}

(***************************************************************************)
(* Two roots; the first has up to three subkeys, the second is the Run key *)
(* or cannot be opened.                                                    *)
(***************************************************************************)

RgVal(id, width, len, secret) == [id |-> id, width |-> width, type |-> id, len |-> len, secret |-> secret]
RgKey(id, width, opens, vals) == [id |-> id, width |-> width, opens |-> opens, values |-> vals]

RgNewValue == RgVal("new", 1, 1, FALSE)
RgRoots == <<"uninstall", "run">>

RgRegistries ==
    {"uninstall" :> <<RgKey("U", 1, u, <<>>), RgKey("a", 1, o, <<RgVal("v", 1, 1, FALSE), RgVal("s", 1, 1, TRUE), RgVal("w", 2, 1, FALSE)>>),
                      RgKey("b", w, TRUE, <<RgVal("x", 1, n, FALSE)>>)>>
     @@ "run" :> <<RgKey("R", 1, r, <<RgVal("p", 1, 1, FALSE)>>)>> :
        u \in BOOLEAN, o \in BOOLEAN, r \in BOOLEAN, w \in {1, 2}, n \in {0, 1, 3}}

(***************************************************************************)
(* Up to three services, one of which may be created during the scan.      *)
(***************************************************************************)

SvSvc(name, size, opens) == [name |-> name, size |-> size, opens |-> opens]
SvManagers == {<<>>, <<SvSvc("a", 1, TRUE)>>, <<SvSvc("a", 1, TRUE), SvSvc("b", 2, FALSE)>>,
               <<SvSvc("b", 2, TRUE), SvSvc("a", 1, TRUE), SvSvc("c", 1, TRUE)>>}
SvNew == {SvSvc("d", 1, TRUE), SvSvc("e", 2, TRUE)}

(***************************************************************************)
(* A root with two folders, one of which has a folder of its own.          *)
(***************************************************************************)

TsFolder(tasks, subfolders) == [tasks |-> tasks, folders |-> subfolders]

TsHierarchies ==
    {"r" :> TsFolder(<<"t1">>, <<"f", "g">>) @@ "f" :> TsFolder(<<"t2">>, <<"h">>)
        @@ "g" :> TsFolder(<<"t3">>, <<>>) @@ "h" :> TsFolder(<<"t4">>, <<>>),
     "r" :> TsFolder(<<>>, <<"f">>) @@ "f" :> TsFolder(<<"t1", "t2">>, <<"g">>)
        @@ "g" :> TsFolder(<<"t3", "t4">>, <<"h">>) @@ "h" :> TsFolder(<<"t5">>, <<>>)}

(***************************************************************************)
(* Every source with and without too many items.                           *)
(***************************************************************************)

SiDir(name, items) == [name |-> name, items |-> items]
SiKinds == {"file", "shortcut", "folder", "reparse"}

SiContents ==
    "appx" :> {<<SiDir("user", [i \in 1..n |-> "file"])>> : n \in 0..4} @@
    "startup" :> {<<SiDir("startup", <<a, b, c>>)>> : a, b, c \in SiKinds} \cup
                 {<<SiDir("startup", <<a, b, "file", c>>)>> : a, b, c \in SiKinds} @@
    "links" :> {<<SiDir("menu", <<a, "shortcut">>), SiDir("desktop", <<b, "shortcut", c, "shortcut">>), SiDir("startup", <<c>>)>> :
                    a, b, c \in SiKinds} @@
    "associations" :> {<<SiDir("defaults", <<"file", "file", "file">>)>>}

-----------------------------------------------------------------------------
Merge == INSTANCE Discovery WITH Registries <- DiTriples, Phases <- 1, MaxEdges <- 12
Art == INSTANCE ArtifactCollect WITH MaxChanges <- ArtifactChanges, MaxWarnings <- ArtifactWarnings

(* The inputs that the collection is given.                                *)
ASSUME ArtifactAssumption == Art!ArtifactAssumption

(* The variables that belong to one part, or to the Windows scans, and     *)
(* those that a part leaves alone.                                         *)
ofDiscovery ==
    <<entries, mode, phase, todo, attempted, succeeded, completed, useful,
      ledger, omitted, found, events, cancelled, inventory>>
ofArtifacts ==
    <<requests, disk, next, file, artifacts, total, touched>>
ofProbe == <<probe, seen>>
ofWindows ==
    <<registry, at, subkeys, index, key, value, info, values,
      observations, errors, manager, resume, capacity, records, stable,
      folders, stack, source, roots, candidates, inspected, observed,
      world, round, listing, exports, features, toQuery, configs,
      discoveries, metadata, plans, started>>

besidesDiscovery == <<ofArtifacts, ofProbe, ofWindows, pc, changes>>
besidesArtifacts == <<ofDiscovery, ofProbe, ofWindows>>
besidesProbe == <<ofDiscovery, ofArtifacts, ofWindows, queue, warnings, pc, changes>>
besidesWindows == <<ofDiscovery, ofArtifacts, ofProbe, queue>>

(* One part is chosen and runs; the variables of the others are "off".     *)
WindowsIsOff ==
    /\ RegistryIsOff
    /\ ServicesAreOff
    /\ TasksAreOff
    /\ ShellIsOff
    /\ WslIsOff
DiscoveryIsOff ==
    /\ entries = "off" /\ mode = "off" /\ phase = "off" /\ todo = "off"
    /\ attempted = "off" /\ succeeded = "off" /\ completed = "off"
    /\ useful = "off" /\ ledger = "off" /\ omitted = "off" /\ found = "off"
    /\ events = "off" /\ cancelled = "off" /\ inventory = "off"
ArtifactsAreOff ==
    /\ requests = "off" /\ disk = "off" /\ next = "off" /\ file = "off"
    /\ artifacts = "off" /\ total = "off" /\ touched = "off"
ProbeIsOff ==
    /\ probe = "off" /\ seen = "off"

OffDiscovery ==
    /\ WindowsIsOff
    /\ ArtifactsAreOff
    /\ ProbeIsOff
    /\ pc = "off" /\ changes = "off" /\ at = "off" /\ observations = "off"
    /\ errors = "off"
OffArtifacts ==
    /\ WindowsIsOff
    /\ DiscoveryIsOff
    /\ ProbeIsOff
    /\ at = "off" /\ observations = "off" /\ errors = "off"
OffProbe ==
    /\ WindowsIsOff
    /\ DiscoveryIsOff
    /\ ArtifactsAreOff
    /\ queue = "off" /\ warnings = "off" /\ pc = "off" /\ changes = "off"
    /\ at = "off" /\ observations = "off" /\ errors = "off"
OffWindows ==
    /\ DiscoveryIsOff
    /\ ArtifactsAreOff
    /\ ProbeIsOff
    /\ queue = "off"

MCInit ==
    \/ part = "discovery" /\ Scan!ScanInit /\ OffDiscovery
    \/ part = "merge" /\ Merge!ScanInit /\ OffDiscovery
    \/ part = "artifacts" /\ Art!AcInit /\ OffArtifacts
    \/ part = "probe" /\ Art!CpInit /\ OffProbe
    \/ WinInit /\ OffWindows

DiscoveryStep == part = "discovery" /\ Scan!ScanNext /\ UNCHANGED <<part, besidesDiscovery>>
MergeStep == part = "merge" /\ Merge!ScanNext /\ UNCHANGED <<part, besidesDiscovery>>
ArtifactStep == part = "artifacts" /\ Art!AcNext /\ UNCHANGED <<part, besidesArtifacts>>
ProbeStep == part = "probe" /\ Art!CpNext /\ UNCHANGED <<part, besidesProbe>>
WindowsStep == WinNext /\ UNCHANGED besidesWindows

MCNext == DiscoveryStep \/ MergeStep \/ ArtifactStep \/ ProbeStep \/ WindowsStep

mcVars == <<winVars, besidesWindows>>

MCSpec == MCInit /\ [][MCNext]_mcVars

(***************************************************************************)
(* Properties                                                              *)
(***************************************************************************)
(* What a scan leaves out is in its warnings or omissions, a failing or    *)
(* timed out adapter contributes nothing by halves, and the reports of the *)
(* phases are true and in order (Coordinator::discover).                   *)
DiscoveryIsHonest ==
    part = "discovery" => /\ Scan!NothingIsLostSilently /\ Scan!NoPartialOutput
                          /\ Scan!PhaseReportsAreTrue /\ Scan!ProgressInOrder

(* In whatever order observations arrive, the merge never joins packages   *)
(* of two providers, leaves no dangling edge (between components that were *)
(* observed and whose identifier no two groups share), weakens no          *)
(* restriction and confirms nothing without independent evidence           *)
(* (dedup.rs, recommend.rs).                                               *)
GraphIsSound ==
    part = "merge" => /\ Merge!ProvidersAreNotBridged /\ Merge!GraphIsClosed
                      /\ Merge!RecommendationsAreSafe /\ Merge!ConfirmedIsSupported

(* Overlapping requests over a changing tree are collected once and within *)
(* every limit; what nobody changed is collected or has a warning, as long *)
(* as there is room for both; a file is called text exactly when its bytes *)
(* are (artifacts.rs).                                                     *)
CollectionIsExact ==
    /\ part = "artifacts" => Art!WithinLimits /\ Art!CollectedOnce /\ Art!NothingIsDropped
    /\ part = "probe" => Art!ValidIsUtf8 /\ Art!NewlineIsExact /\ Art!TextIsText
=============================================================================
