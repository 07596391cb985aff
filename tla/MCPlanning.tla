---------------------------- MODULE MCPlanning -----------------------------
(***************************************************************************)
(* From the user's selection to the report of a run: the closure of a      *)
(* selection, the comparison with the target, the planner and the          *)
(* verification report. A behaviour is one of them on one input.           *)
(***************************************************************************)
EXTENDS Naturals, FiniteSets, Sequences, TLC

CONSTANTS
    \* Selection
    Inventories, Requests, Large, MaxU64, MaxComponents, MaxArtifacts, MaxWarnings,
    \* TargetDiff on its own, and under the Planner
    DiffPackages, DiffTargets,
    PlanPackages, PlanTargets, Selections, Trusts, PayloadBytes, ProtectedRoots,
    MaxPlanOperations, Wsl, Docker, MarginPercent, MarginBytes, MaxBytes,
    \* VerificationReport
    Plans, Facts, MaxSteps

VARIABLES part,
    inv, request, pc, selected, auto, pending, chosen, bytes, warnings, pkg,
    target, step, todo, present, conflicts, blocked, changed, used, backups,
    selection, trust, confirmations, specs, mutations, readiness, owned,
    order, plan, facts, state, result, answer, steps

(* Instances of Selection for TLC: three components, four artifacts.       *)

SeEdge(f, t, r) == [from |-> f, to |-> t, required |-> r]
SeTool == [kind |-> "Tool", strategy |-> "Reinstall", sensitive |-> FALSE,
         executable |-> FALSE, hash |-> FALSE, source |-> TRUE, signed |-> FALSE]
SeSecret == [SeTool EXCEPT !.kind = "SecretReference"]
SePortable == [SeTool EXCEPT !.kind = "PortableBinary", !.hash = TRUE, !.source = FALSE]
SeStray == [SeTool EXCEPT !.kind = "Unknown", !.executable = TRUE]
SeArt(o, p, n) == [owner |-> o, policy |-> p, size |-> n, valid |-> TRUE]

SeInventories ==
    LET comps == {[i \in 1..3 |-> IF i = 2 THEN c ELSE SeTool] : c \in {SeTool, SeSecret, SePortable, SeStray}}
        arts == {<<SeArt(1, "Config", 1), SeArt(2, p, 2), SeArt(3, "Export", 3)>> :
                     p \in {"LargeOptIn", "SecretReference", "PortableBinary", "Manual"}}
                \cup {<<SeArt(1, "Config", 1), SeArt(2, "Data", 2), SeArt(3, "Data", 2)>>,
                      <<SeArt(1, "Config", 1), SeArt(2, "Data", 2),
                        [SeArt(3, "Config", 1) EXCEPT !.valid = FALSE]>>}
        edges == {{}, {SeEdge(1, 2, TRUE), SeEdge(2, 3, TRUE)},
                  {SeEdge(1, 2, TRUE), SeEdge(2, 3, TRUE), SeEdge(3, 1, TRUE), SeEdge(3, 4, FALSE)},
                  {SeEdge(1, 3, FALSE), SeEdge(2, 4, TRUE)},
                  {SeEdge(1, 2, FALSE), SeEdge(3, 2, TRUE), SeEdge(1, 3, FALSE)}}
    IN [comp : comps, art : arts, edges : edges]

SeTake(a) == [artifact |-> a, include |-> TRUE]
SeLeave(a) == [artifact |-> a, include |-> FALSE]
SeDecisions == {<<>>, <<SeTake(2)>>, <<SeLeave(1), SeTake(3)>>, <<SeTake(1), SeLeave(1)>>, <<SeTake(4)>>}

SeRequests ==
    [components : {<<1>>, <<2, 1>>, <<3>>, <<1, 1>>, <<3, 2, 1, 1>>, <<4>>}, artifacts : SeDecisions,
     secrets : {"Exclude", "VaultExplicit"}, large : {"Exclude", "RequireConfirmation"},
     binaries : {"Exclude", "PortableBinaryExplicit"}, limited : {TRUE}, limit : {4}]

(* Instances of TargetDiff for TLC: three components in a chain or in      *)
(* cycles, with every kind of comparison.                                  *)

DfNumeric(s) == [kind |-> "numeric", seg |-> s]
DfText == [kind |-> "text", seg |-> <<1>>]
DfNoVersion == [kind |-> "none", seg |-> <<>>]

DfNoEnv == [name |-> "none", scope |-> "user", value |-> "none"]
DfEnv(n, v) == [name |-> n, scope |-> "user", value |-> v]
DfById == "package" :> 1 @@ "provider" :> 1 @@ "source" :> 1
DfByExe == "executable" :> 1 @@ "hash" :> 1
DfTool(i, v, ch) ==
    [kind |-> "Tool", strategy |-> "Reinstall", portable |-> TRUE, arch |-> "none", id |-> i,
     version |-> v, channel |-> ch, env |-> DfNoEnv]
DfRuntime(v, a) == [DfTool(DfByExe, v, "none") EXCEPT !.kind = "Runtime", !.arch = a]
DfVariable(n) == [DfTool(DfByExe, DfNoVersion, "none") EXCEPT !.kind = "EnvironmentVariable", !.env = DfEnv(n, "a")]
DfSecret == [DfVariable("KEY") EXCEPT !.kind = "SecretReference"]
DfUnsupported == [DfTool(DfByExe, DfNoVersion, "none") EXCEPT !.portable = FALSE]

DfEdge(f, t, r) == [from |-> f, to |-> t, required |-> r]
DfEdges == {{DfEdge(2, 1, TRUE), DfEdge(3, 2, TRUE)},
            {DfEdge(1, 2, TRUE), DfEdge(2, 1, TRUE), DfEdge(3, 4, FALSE)},
            {DfEdge(1, 2, TRUE), DfEdge(2, 3, TRUE), DfEdge(3, 1, TRUE)}}

DfPackages ==
    [comp : {<<DfTool(DfById @@ DfByExe, v, "x"), b, c>> :
                 v \in {DfNumeric(<<1>>), DfNumeric(<<1, 2>>), DfNoVersion},
                 b \in {DfRuntime(DfNumeric(<<1>>), "x64"), DfVariable("PATH"), DfVariable("PORT"),
                        DfVariable("OTHER"), DfVariable("invalid"), DfSecret},
                 c \in {DfTool(DfById, DfNumeric(<<1, 0>>), "none"), DfUnsupported}},
     art : {<<>>, <<[owner |-> 1, policy |-> "Config"], [owner |-> 2, policy |-> "Data"]>>,
            <<[owner |-> 1, policy |-> "SecretReference"], [owner |-> 3, policy |-> "Manual"],
              [owner |-> 2, policy |-> "SecretReference"]>>},
     edges : DfEdges]

DfFact(i, v, ch) == [id |-> i, version |-> v, channel |-> ch]
DfTarget(installed, runtimes, env, arch) ==
    [installed |-> installed, runtimes |-> runtimes, env |-> env, arch |-> arch]
DfTargets ==
    LET fact == DfFact(DfById, DfNumeric(<<1, 1>>), "x")
        old == 2 :> [version |-> DfNumeric(<<0, 9>>), arch |-> "x86"]
        known(v) == {DfEnv(n, v) : n \in {"PATH", "PORT", "OTHER", "KEY"}}
    IN {DfTarget(f, r, e, "x64") :
            f \in {<<>>, <<fact>>, <<DfFact(DfByExe, DfNumeric(<<1, 0>>), "y")>>,
                   <<DfFact(DfById, DfText, "none"), DfFact(DfByExe, DfNumeric(<<2>>), "x")>>},
            r \in {<<>>, old}, e \in {{}, known("a"), known("b")}}
       \cup {DfTarget(<<fact>>, r, {}, "arm64") : r \in {<<>>, old}}

(* Instances of Planner for TLC: three components, of which the first or   *)
(* second may depend on the third, with files that overlap, on a target    *)
(* that has none, some or conflicting state of them.                       *)

PlV(n) == [kind |-> "numeric", seg |-> <<n>>]
PlFields(i) == "executable" :> i @@ "hash" :> i
PlTool(i) ==
    [kind |-> "Tool", strategy |-> "Reinstall", portable |-> TRUE, arch |-> "none", id |-> PlFields(i),
     version |-> PlV(2), channel |-> "none",
     env |-> [name |-> "none", scope |-> "user", value |-> "none"], os |-> <<"any">>,
     requiredArch |-> "none", elevation |-> FALSE, requiresProvider |-> 0, runtime |-> 0,
     wsl |-> FALSE, docker |-> FALSE, rules |-> {1}, provider |-> 3, rulePackages |-> {}]
PlConfig(i) == [PlTool(i) EXCEPT !.strategy = "ConfigPortable", !.provider = 0]
PlRuntime(i) == [PlTool(i) EXCEPT !.kind = "Runtime", !.requiresProvider = 3]
PlFile(o, path, obj) == [owner |-> o, policy |-> "Config", content |-> "Json", path |-> path, object |-> obj]
PlEdge(f, t, k, r) == [from |-> f, to |-> t, kind |-> k, required |-> r]

PlPackage(cs, arts, edges) ==
    [comp |-> cs, art |-> arts, edges |-> edges, os |-> <<"any">>, arch |-> "none",
     objects |-> 1..3, mcp |-> <<>>]

PlFiles == {<<PlFile(1, <<1, 1>>, 1), [PlFile(2, p, 2) EXCEPT !.content = "Toml"], PlFile(3, <<1, 1, 2>>, 3), [PlFile(3, q, 1) EXCEPT !.content = "Other"]>> :
             p \in {<<1, 1, 1>>, <<2>>}, q \in {<<2, 1>>, <<9, 1>>}}
PlGraphs == {{}, {PlEdge(3, 1, "Requires", TRUE)}, {PlEdge(3, 2, "RestoresBefore", FALSE), PlEdge(2, 1, "Requires", TRUE)},
           {PlEdge(3, 1, "VerifiesWith", TRUE), PlEdge(1, 3, "Requires", TRUE), PlEdge(2, 3, "Requires", FALSE)}}
PlBasic == {PlPackage(<<a, b, c>>, art, g) : a \in {PlTool(1), PlConfig(1)}, b \in {PlRuntime(2), PlConfig(2)},
             c \in {PlTool(3), [PlConfig(3) EXCEPT !.strategy = "ReauthRequired"]}, art \in PlFiles, g \in PlGraphs}

(* Kinds and defects that the basic packages do not have.                  *)
PlOne(c, art) == PlPackage(<<c>>, art, {})
PlData(p, obj) == <<[PlFile(1, <<1, 1>>, obj) EXCEPT !.policy = p]>>
PlKind(k) == [PlConfig(1) EXCEPT !.kind = k, !.strategy = "Partial", !.docker = TRUE]
PlMcp(r, p, a) == 1 :> [runtime |-> r, package |-> p, artifact |-> a]
PlWithMcp(m, obj) == [PlPackage(<<PlKind("McpServer"), PlRuntime(2)>>, <<PlFile(1, <<1, 1>>, obj)>>, {}) EXCEPT !.mcp = m]
PlVariable(n) == [PlKind("EnvironmentVariable") EXCEPT !.env = [name |-> n, scope |-> "user", value |-> "a"]]
PlOdd ==
    {PlOne(PlKind(k), PlData(p, 1)) : k \in {"WslDistribution", "DockerImage", "DockerVolume", "Extension", "SystemFeature",
                                       "Tool"},
                                p \in {"LargeOptIn", "Data", "Manual"}}
    \cup {PlOne(PlVariable(n), <<>>) : n \in {"PATH", "OTHER"}}
    \cup {PlOne([PlKind("Tool") EXCEPT !.rules = {}], <<>>), PlOne(PlKind("Tool"), <<>>), PlOne(PlKind("Tool"), PlData("Config", 0)),
          PlOne(PlKind("Tool"), PlData("Config", 7)), PlOne([PlKind("Extension") EXCEPT !.provider = 3, !.wsl = TRUE], PlData("Data", 1)),
          PlOne(PlKind("Tool"), PlData("Config", 1) \o PlData("Config", 1)), PlOne([PlKind("Runtime") EXCEPT !.runtime = 7], <<>>)}
    \cup {PlOne([PlTool(1) EXCEPT !.provider = p, !.rulePackages = rp], <<>>) : p \in {0, 3}, rp \in {{3}, {4}, {3, 4}}}
    \cup {PlWithMcp(m, obj) : m \in {<<>>, PlMcp(2, 2, 1), PlMcp(7, 0, 1), PlMcp(0, 2, 5)}, obj \in {1, 2}}
    \cup {PlPackage(<<PlTool(1), PlTool(2)>>, <<>>, {PlEdge(1, 2, "Requires", TRUE), PlEdge(2, 1, "Requires", TRUE)})}

PlPackages == PlBasic \cup PlOdd
PlSelections ==
    {[components |-> cs, artifacts |-> as] : cs \in {{1}, {1, 2, 3}}, as \in {{1}, {1, 2, 3, 4}}}
    \cup {[components |-> cs, artifacts |-> {}] : cs \in {{}, {1}, {3}}}

PlFact(i, n) == [id |-> PlFields(i), version |-> PlV(n), channel |-> "none"]
PlHost(free, fs) ==
    [installed |-> fs, runtimes |-> <<>>, env |-> {}, arch |-> "x64", os |-> <<"windows">>,
     free |-> {free}, providers |-> {1, 2, 3}, elevated |-> FALSE]
PlTargets == {PlHost(9, <<>>), PlHost(5, <<>>), PlHost(9, <<PlFact(1, 1), PlFact(3, 2)>>), PlHost(1, <<PlFact(1, 3)>>)}

(* Instances of VerificationReport for TLC: plans of two components with   *)
(* one operation per family, siblings, prerequisites and manual actions.   *)

VrRule(t, x, w) == [type |-> t, subject |-> x, want |-> w]
VrO(c, k, x, w, pre, sec, rs) ==
    [comp |-> c, kind |-> k, subject |-> x, want |-> w, prereqs |-> pre, secret |-> sec, rules |-> rs]
VrC(rs, s) == [rules |-> rs, strategy |-> s, portable |-> s # "Bound"]
VrA(c, rs) == [comp |-> c, rule |-> rs]
VrP(cs, sel, os, as) == [comps |-> cs, selected |-> sel, ops |-> os, actions |-> as]

VrTool == VrRule("ProviderIdentity", "tool", "any")
VrCfg == VrRule("ConfigJson", "cfg", "any")
VrVar == VrRule("Environment", "PATH", "v1")
VrKey == VrRule("Environment", "KEY", "secret")
VrSec == VrRule("SecureTarget", "key", "any")
VrFiles == {VrRule("File", "f", "o1"), VrRule("FileVersion", "f", "o1"), VrRule("BrowserArtifact", "f", "any")}

VrPlans == {
    VrP(<<VrC({VrTool}, "Install"), VrC({VrCfg}, "Merge")>>, <<1, 2>>,
      <<VrO(1, "InstallPackage", "tool", "any", <<>>, FALSE, {}),
        VrO(2, "MergeJson", "cfg", "o1", <<1>>, FALSE, {VrRule("File", "cfg", "o1")})>>, <<>>),
    VrP(<<VrC({VrCfg}, "Merge"), VrC({VrVar}, "Manual")>>, <<2, 1>>,
      <<VrO(1, "OpenManualAction", "ask", "any", <<>>, FALSE, {}),
        VrO(1, "MergeJson", "cfg", "o1", <<1>>, FALSE, {}),
        VrO(2, "AppendUserPath", "PATH", "v1", <<>>, FALSE, {})>>, <<VrA(1, {}), VrA(2, {})>>),
    VrP(<<VrC({VrKey, VrSec}, "Install"), VrC({}, "Install")>>, <<1>>,
      <<VrO(1, "SetUserEnvironment", "KEY", "secret", <<>>, TRUE, {}),
        VrO(1, "OpenManualAction", "key", "any", <<>>, TRUE, {VrSec})>>, <<VrA(1, {VrSec})>>),
    VrP(<<VrC({VrRule("WslState", "d", "v2"), VrRule("DockerImage", "img", "any")}, "Install"),
        VrC({VrRule("ConfigToml", "t", "any")}, "Manual")>>, <<1, 2>>,
      <<VrO(1, "ImportWsl", "d", "v2", <<>>, FALSE, {}),
        VrO(1, "RestoreDockerImage", "img", "any", <<1>>, FALSE, {}),
        VrO(2, "MergeToml", "t", "o1", <<>>, FALSE, {})>>, <<>>),
    VrP(<<VrC(VrFiles, "Partial"), VrC({VrTool}, "Bound")>>, <<1, 2>>,
      <<VrO(1, "WriteFile", "f", "o1", <<>>, FALSE, {}),
        VrO(1, "WriteFile", "g", "o1", <<1>>, FALSE, {})>>, <<VrA(2, {VrTool})>>),
    VrP(<<VrC({VrRule("McpRegistration", "m", "any"), VrRule("DockerVolume", "v", "any")}, "Install")>>,
      <<1, 3>>,
      <<VrO(1, "RegisterMcp", "m", "any", <<>>, FALSE, {}),
        VrO(1, "RestoreDockerVolume", "v", "any", <<>>, FALSE, {})>>, <<>>),
    VrP(<<VrC({VrTool}, "Install")>>, <<1, 1>>, <<VrO(1, "Verify", "tool", "any", <<>>, FALSE, {VrTool})>>, <<>>)}

VrFact(t, x, v) == [type |-> t, subject |-> x, value |-> v]
VrFacts == {{}, {VrFact("ProviderIdentity", "tool", "v1"), VrFact("Environment", "PATH", "v1")},
            {VrFact("WslState", "d", "v1"), VrFact("DockerImage", "img", "any")}}

-----------------------------------------------------------------------------
Sel == INSTANCE Selection
Diff == INSTANCE TargetDiff WITH Packages <- DiffPackages, Targets <- DiffTargets
Plan == INSTANCE Planner WITH Packages <- PlanPackages, Targets <- PlanTargets
Report == INSTANCE VerificationReport

(* The inputs that the parts are given.                                    *)
ASSUME SelectionAssumption == Sel!SelectionAssumption
ASSUME DiffAssumption == Diff!DiffAssumption
ASSUME PlannerAssumption == Plan!PlannerAssumption
ASSUME ReportAssumption == Report!ReportAssumption

(* The variables that one part alone has, and those that a part leaves     *)
(* alone.                                                                  *)
ofSelection == <<inv, request, pc, auto, pending, chosen, bytes, warnings>>
ofPlan ==
    <<selection, trust, confirmations, specs, mutations, readiness, owned,
      order>>
ofReport == <<plan, facts, state, result, answer, steps>>

besidesSelection ==
    <<ofPlan, ofReport, pkg, target, step, todo, present, conflicts, blocked,
      changed, used, backups>>
besidesDiff == <<ofSelection, ofPlan, ofReport, selected>>
besidesPlan == <<ofSelection, ofReport>>
besidesReport ==
    <<ofSelection, ofPlan, selected, pkg, target, step, todo, present,
      conflicts, blocked, changed, used, backups>>

(* One part is chosen and runs; the variables of the others are "off".     *)
SelectionIsOff ==
    /\ inv = "off" /\ request = "off" /\ pc = "off" /\ auto = "off"
    /\ pending = "off" /\ chosen = "off" /\ bytes = "off" /\ warnings = "off"
PlanIsOff ==
    /\ selection = "off" /\ trust = "off" /\ confirmations = "off"
    /\ specs = "off" /\ mutations = "off" /\ readiness = "off"
    /\ owned = "off" /\ order = "off"
ReportIsOff ==
    /\ plan = "off" /\ facts = "off" /\ state = "off" /\ result = "off"
    /\ answer = "off" /\ steps = "off"

OffSelection ==
    /\ PlanIsOff /\ ReportIsOff /\ pkg = "off" /\ target = "off"
    /\ step = "off" /\ todo = "off" /\ present = "off" /\ conflicts = "off"
    /\ blocked = "off" /\ changed = "off" /\ used = "off" /\ backups = "off"
OffDiff ==
    /\ SelectionIsOff /\ PlanIsOff /\ ReportIsOff /\ selected = "off"
OffPlan ==
    /\ SelectionIsOff /\ ReportIsOff
OffReport ==
    /\ SelectionIsOff /\ PlanIsOff /\ selected = "off" /\ pkg = "off"
    /\ target = "off" /\ step = "off" /\ todo = "off" /\ present = "off"
    /\ conflicts = "off" /\ blocked = "off" /\ changed = "off" /\ used = "off"
    /\ backups = "off"

MCInit ==
    \/ part = "selection" /\ Sel!SelectionInit /\ OffSelection
    \/ part = "diff" /\ Diff!DiffInit /\ OffDiff
    \/ part = "plan" /\ Plan!PlannerInit /\ OffPlan
    \/ part = "report" /\ Report!ReportInit /\ OffReport

SelectionStep == part = "selection" /\ Sel!SelectionNext /\ UNCHANGED <<part, besidesSelection>>
DiffStep == part = "diff" /\ Diff!DiffNext /\ UNCHANGED <<part, besidesDiff>>
PlanStep == part = "plan" /\ Plan!PlannerNext /\ UNCHANGED <<part, besidesPlan>>
ReportStep == part = "report" /\ Report!ReportNext /\ UNCHANGED <<part, besidesReport>>

MCNext ==
    \/ SelectionStep
    \/ DiffStep
    \/ PlanStep
    \/ ReportStep

mcVars ==
    <<part, inv, request, pc, selected, auto, pending, chosen, bytes,
      warnings, pkg, target, step, todo, present, conflicts, blocked, changed,
      used, backups, selection, trust, confirmations, specs, mutations,
      readiness, owned, order, plan, facts, state, result, answer, steps>>

MCSpec == MCInit /\ [][MCNext]_mcVars

(***************************************************************************)
(* Properties                                                              *)
(***************************************************************************)
(* A selection is the least closure of what the user chose under required  *)
(* dependencies, and holds nothing risky that was not asked for            *)
(* (selection.rs).                                                         *)
SelectionIsSafe ==
    part = "selection" => Sel!SelectionTypeOK /\ Sel!LeastClosure /\ Sel!NothingRiskyByDefault

(* Exactly the components that cannot be restored, or need one that        *)
(* cannot, are blocked; nothing on the target is replaced without consent  *)
(* or by what may be older (diff.rs).                                      *)
DiffIsSound ==
    part = "diff" => Diff!BlockedExactly /\ Diff!NoSilentChange /\ Diff!VersionOrderSound

(* A plan is a topological order in which overlapping writes are ordered,  *)
(* changes come after their confirmations, and a verification waits for    *)
(* all it depends on (planner.rs, operations.rs).                          *)
PlanIsSound ==
    part = "plan" => /\ Plan!PlanIsOrdered /\ Plan!NoRacingWrites /\ Plan!ConfirmedFirst
                     /\ Plan!VerifiedAtTheEnd /\ Plan!TargetStateKept

(* Whatever states, proofs and answers meet, a failure is in the report, a *)
(* success is earned by proofs, and a pause is one (verification.rs).      *)
ReportIsHonest ==
    part = "report" => Report!FailureIsReported /\ Report!SuccessIsEarned /\ Report!PauseIsReal
=============================================================================
