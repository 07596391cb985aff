------------------------------ MODULE Planner ------------------------------
(***************************************************************************)
(* RestorePlanner::plan (reforge-restore/src/planner.rs, operations.rs)    *)
(* over the comparison of TargetDiff and the result of                     *)
(* CompatibilityEngine::evaluate (reforge-restore/src/compatibility.rs):   *)
(* the selection is closed, each selected component becomes a set of       *)
(* typed operations, prerequisites are added for confirmations,            *)
(* dependencies and overlapping writes, and the operations are put in      *)
(* topological order.                                                      *)
(*                                                                         *)
(* An operation is identified, as by its idempotency key, by its kind, its *)
(* component and its destination.  Words of paths and identifiers are      *)
(* numbers in the order of their text; the first word of a path is its     *)
(* known folder.                                                           *)
(***************************************************************************)
EXTENDS TargetDiff

CONSTANTS
    Wsl, Docker,         \* the providers of those subsystems; 0 is no provider
    MarginPercent,       \* FREE_SPACE_MARGIN_PERCENT
    MarginBytes,         \* MINIMUM_FREE_SPACE_MARGIN_BYTES
    MaxBytes,            \* largest value of a u64
    Selections,          \* [components, artifacts] the user may have chosen
    Trusts,              \* trust states of the package
    PayloadBytes,        \* disk space the package asks for
    ProtectedRoots,      \* ProgramData, ProgramFiles, ProgramFilesX86
    MaxPlanOperations    \* MAX_PLAN_OPERATIONS

VARIABLES
    selection, trust,
    selected,        \* selected_components, closed
    confirmations,   \* confirmation_keys
    specs,           \* operation -> [comp, pre]
    mutations,       \* component_mutations
    readiness,       \* component_readiness, at most one operation each
    owned,           \* component_all_operations
    order            \* the operations emitted so far

(* The content of an artifact is written to a path of words, the first of  *)
(* them its known folder.                                                  *)
PlannableOK(p) ==
    /\ PackageOK(p)
    /\ \A a \in DOMAIN p.art : p.art[a].path \in Seq(Nat) /\ p.art[a].object \in Nat
PlannerAssumption == \A p \in Packages : PlannableOK(p)

planVars == <<selection, trust, selected, confirmations, specs, mutations, readiness, owned, order>>

(***************************************************************************)
(* Compatibility: the blockers and confirmations that the target's system, *)
(* disk, providers and runtimes give rise to.  A blocker or confirmation   *)
(* about no component in particular has component 0.                       *)
(***************************************************************************)
Blocker(c, code) == [component |-> c, code |-> code]

(* A system name is a sequence of words; a bare version number is <<"#">>. *)
OsMatches(required, observed) ==
    /\ required # <<>> /\ observed # <<>>
    /\ IF required = <<"windows">> THEN Head(observed) \in {"windows", "#"}
       ELSE IsPrefix(required, observed)

CheckOsRequirement(c, required) ==
    IF required = <<"any">> \/ OsMatches(required, target.os) THEN {}
    ELSE {Blocker(c, "OsConflict")}

CheckArchitectureRequirement(c, required) ==
    IF required = "none" \/ ArchitectureMatches(required, target.arch) THEN {}
    ELSE {Blocker(c, "ArchitectureConflict")}

(* The required bytes plus the larger of the two margins.                  *)
RecommendedFreeBytes(required) ==
    LET n == 100 \div MarginPercent
    IN required + Max({(required + n - 1) \div n, MarginBytes})

CheckDiskRequirement(required) ==
    LET available == Max(target.free)
        blocks == \/ target.free = {}
                  \/ available < required
                  \/ RecommendedFreeBytes(required) > MaxBytes
    IN CASE required = 0 -> [blockers |-> {}, confirmations |-> {}]
         [] required > 0 /\ blocks ->
              [blockers |-> {Blocker(0, "InsufficientDisk")}, confirmations |-> {}]
         [] OTHER ->
              [blockers |-> {},
               confirmations |-> IF available < RecommendedFreeBytes(required)
                                 THEN {[component |-> 0, id |-> "confirm_low_disk_margin"]}
                                 ELSE {}]

(* A provider the component, WSL or Docker needs must be usable already.   *)
CheckProvider(c, provider) ==
    IF provider = 0 \/ provider \in target.providers THEN {}
    ELSE {Blocker(c, "ProviderUnavailable")}

CheckRuntime(c, runtime) ==
    CASE runtime = 0 -> {}
      [] runtime # 0 /\ runtime \notin DOMAIN target.runtimes -> {Blocker(c, "TargetConflict")}
      [] OTHER -> LET a == target.runtimes[runtime].arch
                  IN IF a = "none" \/ ArchitectureMatches(a, target.arch) THEN {}
                     ELSE {Blocker(c, "ArchitectureConflict")}

CheckComponent(c) ==
    LET r == pkg.comp[c]
    IN CheckOsRequirement(c, r.os)
       \cup CheckArchitectureRequirement(c, r.requiredArch)
       \cup (IF r.elevation /\ ~target.elevated THEN {Blocker(c, "AccessDenied")} ELSE {})
       \cup CheckProvider(c, r.requiresProvider)
       \cup CheckRuntime(c, r.runtime)
       \cup (IF r.wsl THEN CheckProvider(c, Wsl) ELSE {})
       \cup (IF r.docker THEN CheckProvider(c, Docker) ELSE {})

Evaluate(bytes) ==
    LET disk == CheckDiskRequirement(bytes)
        blockers == CheckOsRequirement(0, pkg.os)
                    \cup CheckArchitectureRequirement(0, pkg.arch)
                    \cup disk.blockers
                    \cup UNION {CheckComponent(c) : c \in Components}
    IN [blockers |-> blockers, confirmations |-> disk.confirmations,
        status |-> IF blockers # {} THEN "Blocked"
                   ELSE IF disk.confirmations # {} THEN "RequiresConfirmation" ELSE "Ready"]

(***************************************************************************)
(* Operations                                                              *)
(***************************************************************************)
(* operation_kind_key and default_phase: the kinds in the order of their   *)
(* keys, each phase a group.                                               *)
Phases ==
    << <<"EnsureProvider">>, <<"EnsureRuntime">>, <<"InstallPackage">>,
       <<"MergeJson", "MergeToml", "WriteFile">>, <<"SetUserEnvironment">>,
       <<"ImportWsl", "RestoreDockerImage", "RestoreDockerVolume">>,
       <<"InstallVsCodeExtension", "RegisterMcp">>, <<"OpenManualAction">>, <<"Verify">> >>

Op(kind, c, dest, object) == [kind |-> kind, comp |-> c, dest |-> dest, object |-> object]

(* The reasons that tell one manual action of a component from another.    *)
ByComponent == 1
ByArtifact == 2
ByReauth == 3
ByUnsupported == 4
ByConfirmation == 5
ByConflict == 6
Manual(c, reason, n) == Op("OpenManualAction", c, <<reason>> \o n, 0)
EnsureProvider(p) == Op("EnsureProvider", 0, <<p>>, 0)

(* An entry that a map already has is kept.                                *)
OrInsert(f, g) == [x \in DOMAIN f \cup DOMAIN g |-> IF x \in DOMAIN f THEN f[x] ELSE g[x]]

IndexOf(s, x) == CHOOSE i \in DOMAIN s : s[i] = x

LexLess(s, t) ==
    \E i \in 1..Len(t) :
        /\ i <= Len(s) + 1 /\ \A j \in 1..(i - 1) : s[j] = t[j]
        /\ i > Len(s) \/ s[i] < t[i]

(* Phase, component, kind, destination and the operation's own identity.   *)
SortKey(o) ==
    LET p == CHOOSE i \in DOMAIN Phases : o.kind \in Range(Phases[i])
        k == CHOOSE i \in DOMAIN Phases[p] : Phases[p][i] = o.kind
    IN <<p, specs[o].comp, k>> \o o.dest \o <<0, o.object>>
SortsBefore(o, p) == LexLess(SortKey(o), SortKey(p))

WriteKinds == {"MergeJson", "MergeToml", "WriteFile"}

(* Faulty variant: only equal destinations overlap.                        *)
PathsOverlapEqual(p, q) == p = q
PathsOverlap(p, q) ==
    \/ p = q
    \/ Len(p) > 1 /\ IsPrefix(p, q)
    \/ Len(q) > 1 /\ IsPrefix(q, p)

(***************************************************************************)
(* Gates before any operation is made                                      *)
(***************************************************************************)
Fail(error) == step' = error

PlannerInit ==
    /\ DiffInit
    /\ selection \in Selections /\ trust \in Trusts
    /\ selected = {}
    /\ confirmations = <<>> /\ specs = <<>> /\ mutations = <<>>
    /\ readiness = <<>> /\ owned = <<>> /\ order = <<>>

(* The typed MCP records must name MCP components of the graph and a       *)
(* configuration artifact of theirs whose object is in the package.        *)
ValidateMcpSpecs ==
    \A c \in DOMAIN pkg.mcp :
        /\ c \in Components /\ pkg.comp[c].kind = "McpServer"
        /\ LET a == pkg.mcp[c].artifact
           IN a \in ArtifactsOf(c) /\ pkg.art[a].policy = "Config" /\ pkg.art[a].object \in pkg.objects

(* require_plan_approval and the validation of the input.                  *)
Approve ==
    /\ step = "compared"
    /\ CASE trust # "UserApproved" -> Fail("PackageUntrusted") /\ UNCHANGED <<todo, selected>>
         [] trust = "UserApproved" /\ ~ValidateMcpSpecs ->
                Fail("SchemaInvalid") /\ UNCHANGED <<todo, selected>>
         [] trust = "UserApproved" /\ ValidateMcpSpecs /\ ~(selection.components \subseteq Components) ->
                Fail("SelectionIncomplete") /\ UNCHANGED <<todo, selected>>
         [] OTHER -> /\ step' = "close" /\ selected' = selection.components
                     /\ todo' = Sorted(selection.components)
    /\ UNCHANGED <<selection, trust, confirmations, specs, mutations, readiness, owned, order>>

McpNeeds(c) == IF c \in DOMAIN pkg.mcp THEN {pkg.mcp[c].runtime, pkg.mcp[c].package} \ {0} ELSE {}
RuntimeNeeds(c) == {pkg.comp[c].runtime} \ {0}

(* One turn of the loop of close_selection: the last pending component     *)
(* brings in what it requires; a runtime or package that the graph does    *)
(* not have ends the planning.                                             *)
CloseSelection ==
    /\ step = "close" /\ todo # <<>>
    /\ LET c == todo[Len(todo)]
           needs == {e.to : e \in {x \in RequiredEdges : x.from = c}} \cup RuntimeNeeds(c) \cup McpNeeds(c)
       IN IF needs \subseteq Components
          THEN /\ selected' = selected \cup needs
               /\ todo' = Front(todo) \o Sorted(needs \ selected) /\ UNCHANGED step
          ELSE Fail("SelectionIncomplete") /\ UNCHANGED <<selected, todo>>
    /\ UNCHANGED <<selection, trust, confirmations, specs, mutations, readiness, owned, order>>

(* The pairs <<dependent, dependency>> of the selected components.         *)
DependencyPairs ==
    UNION {{<<c, d>> : d \in selected \cap
                (RuntimeNeeds(c) \cup McpNeeds(c) \cup
                 {e.to : e \in {x \in pkg.edges : /\ x.from = c /\ x.kind # "VerifiesWith"
                                                  /\ x.required \/ x.kind = "RestoresBefore"}})} :
           c \in selected}

Cyclic(S, pairs) ==
    \E C \in SUBSET S \ {{}} : \A x \in C : \E y \in C : <<x, y>> \in pairs

ClosureError ==
    CASE \E a \in selection.artifacts : a \notin Artifacts \/ pkg.art[a].owner \notin selected -> "SelectionIncomplete"
      [] \E c \in selected \cap DOMAIN pkg.mcp : pkg.mcp[c].artifact \notin selection.artifacts -> "SelectionIncomplete"
      [] \E c \in selected : pkg.comp[c].rules = {} -> "SchemaInvalid"
      [] OTHER -> "none"

(* Conflicts and compatibility results about a selected component, or      *)
(* about none in particular.                                               *)
Relevant(X) == {x \in X : x.component \in selected \cup {0}}
TargetBlocks == \/ \E x \in Relevant(conflicts) : x.blocks
                \/ Relevant(Evaluate(PayloadBytes).blockers) # {}

EndOfClosure ==
    /\ step = "close" /\ todo = <<>>
    /\ step' = IF ClosureError # "none" THEN ClosureError
               ELSE IF Cyclic(selected, DependencyPairs) THEN "DependencyCycle"
               ELSE IF TargetBlocks THEN "TargetConflict" ELSE "seed"
    /\ UNCHANGED <<todo, selection, trust, selected, confirmations, specs, mutations, readiness, owned, order>>

(***************************************************************************)
(* Confirmations                                                           *)
(***************************************************************************)
ConflictKinds == <<"VersionDifference", "ConfigDifference", "DataCollision", "SecretCollision",
                   "PathCollision", "PortCollision", "AlreadySatisfied">>
Unconfirmed == {x \in Relevant(conflicts) : x.confirm \/ x.resolution = "Manual"}
ConflictAction(x) ==
    Manual(x.component, ByConflict, <<IndexOf(ConflictKinds, x.kind), x.suffix[2]>>)

(* A global confirmation is owned by the first selected component and      *)
(* holds up every selected component.                                      *)
GlobalAction == Manual(0, ByConfirmation, <<1>>)

SeedConfirmations ==
    /\ step = "seed"
    /\ LET global == IF Evaluate(PayloadBytes).confirmations = {} THEN {} ELSE {GlobalAction}
           byConflict == {ConflictAction(x) : x \in Unconfirmed}
       IN IF global # {} /\ selected = {} THEN Fail("SelectionIncomplete") /\ UNCHANGED <<confirmations, specs>>
          ELSE /\ step' = "build"
               /\ specs' = [o \in global \cup byConflict |->
                               [comp |-> IF o.comp = 0 THEN Min(selected) ELSE o.comp, pre |-> {}]]
               /\ confirmations' = [c \in selected |-> global \cup {o \in byConflict : o.comp = c}]
    /\ todo' = Sorted(selected)
    /\ UNCHANGED <<selection, trust, selected, mutations, readiness, owned, order>>

(***************************************************************************)
(* Operations of one component                                             *)
(***************************************************************************)
RequiresManual(c) ==
    \/ Disposition(c) = "Manual"
    \/ pkg.comp[c].strategy \in {"Manual", "MachineBound", "Unknown", "SecretExportable"}
    \/ pkg.comp[c].kind \in {"SecretReference", "SystemFeature"}
    \/ pkg.comp[c].kind = "McpServer" /\ c \notin DOMAIN pkg.mcp

(* The package of a component: its own identity, or the one that its       *)
(* verification rules name; the two must agree.                            *)
ProviderIdentity(c) ==
    LET r == pkg.comp[c]
    IN IF r.provider # 0 THEN r.provider ELSE Max(r.rulePackages \cup {0})
ProviderIdentityError(c) ==
    LET r == pkg.comp[c]
    IN /\ Disposition(c) = "Install" /\ r.kind \in {"Package", "Application", "Tool"} /\ r.strategy = "Reinstall"
       /\ Cardinality(r.rulePackages) > 1 \/ (r.provider # 0 /\ ~(r.rulePackages \subseteq {r.provider}))

(* Faulty variant: a component is installed whatever its disposition is.   *)
PrimaryOperationAlways(c) ==
    IF pkg.comp[c].kind = "Tool" /\ pkg.comp[c].provider # 0 THEN {Op("InstallPackage", c, <<c>>, 0)} ELSE {}
(* The operation that installs the component itself, where its kind and    *)
(* strategy have one and its identity is known.                            *)
PrimaryOperation(c) ==
    LET r == pkg.comp[c]
        kind == CASE r.kind = "EnvironmentVariable" /\ r.env.name \notin {"PATH", "invalid"}
                     /\ r.env.scope = "user" /\ r.env.value # "none" -> "SetUserEnvironment"
                  [] r.kind = "Runtime" /\ r.strategy \in {"Reinstall", "Partial"} -> "EnsureRuntime"
                  [] r.kind \in {"Package", "Application", "Tool"} /\ r.strategy = "Reinstall"
                     /\ ProviderIdentity(c) # 0 -> "InstallPackage"
                  [] r.kind = "Extension" /\ r.strategy \in {"Reinstall", "Partial"}
                     /\ r.provider # 0 -> "InstallVsCodeExtension"
                  [] OTHER -> "none"
    IN IF Disposition(c) # "Install" \/ kind = "none" THEN {} ELSE {Op(kind, c, <<c>>, 0)}

Special(c, a) ==
    CASE pkg.comp[c].kind = "WslDistribution" /\ pkg.art[a].policy \in {"LargeOptIn", "Export"} -> "ImportWsl"
      [] pkg.comp[c].kind = "DockerImage" -> "RestoreDockerImage"
      [] pkg.comp[c].kind = "DockerVolume" -> "RestoreDockerVolume"
      [] OTHER -> "none"

ManualArtifact(c, a) ==
    \/ pkg.art[a].policy \in {"Manual", "SecretReference"}
    \/ Head(pkg.art[a].path) \in ProtectedRoots

ArtifactOperation(c, a) ==
    LET r == pkg.art[a]
        merge == CASE r.policy = "Config" /\ r.content = "Json" -> "MergeJson"
                   [] r.policy = "Config" /\ r.content = "Toml" -> "MergeToml"
                   [] OTHER -> "none"
    IN IF ManualArtifact(c, a) THEN Manual(c, ByArtifact, <<a>>)
       ELSE IF Special(c, a) # "none"
       THEN IF c \in present THEN Manual(c, ByArtifact, <<a>>) ELSE Op(Special(c, a), c, <<c>>, r.object)
       ELSE IF merge # "none" THEN Op(merge, c, r.path, r.object)
       ELSE IF c \in present /\ r.policy # "Config" THEN Manual(c, ByArtifact, <<a>>)
       ELSE Op("WriteFile", c, r.path, r.object)

SelectedArtifacts(c) == ArtifactsOf(c) \cap selection.artifacts

(* The provider that an operation needs, 0 for none.                       *)
ProviderOf(c, o) ==
    LET r == pkg.comp[c]
    IN CASE o.kind = "InstallPackage" -> ProviderIdentity(c)
         [] o.kind = "EnsureRuntime" -> r.requiresProvider
         [] o.kind = "ImportWsl" -> Wsl
         [] o.kind \in {"RestoreDockerImage", "RestoreDockerVolume"} -> Docker
         [] o.kind \in WriteKinds -> IF r.requiresProvider # 0 THEN r.requiresProvider
                                     ELSE IF r.wsl THEN Wsl ELSE IF r.docker THEN Docker ELSE 0
         [] OTHER -> 0

(* Faulty variant: merges do not wait for the confirmations.               *)
ConfirmationPrerequisitesPrimary(c, o) ==
    IF o.kind \in WriteKinds \cup {"OpenManualAction"} THEN {} ELSE confirmations[c]
ConfirmationPrerequisites(c, o) ==
    IF o.kind = "OpenManualAction" THEN {} ELSE confirmations[c]

(* build_component_operations: the component's mutations and the one that  *)
(* its dependents wait for.                                                *)
Built(c) ==
    LET primary == PrimaryOperation(c)
        byArtifact == {ArtifactOperation(c, a) : a \in SelectedArtifacts(c)}
        mcp == IF c \in DOMAIN pkg.mcp THEN {Op("RegisterMcp", c, <<c>>, 0)} ELSE {}
        reauth == IF pkg.comp[c].strategy = "ReauthRequired" THEN {Manual(c, ByReauth, <<>>)} ELSE {}
        all == primary \cup byArtifact \cup mcp \cup reauth
        first == IF mcp # {} THEN mcp
                 ELSE IF primary # {} THEN primary
                 ELSE IF byArtifact # {} THEN {ArtifactOperation(c, Min(SelectedArtifacts(c)))}
                 ELSE {}
    IN IF Disposition(c) \in {"Skip", "PreserveTarget"} THEN [ops |-> {}, ready |-> {}]
       ELSE IF RequiresManual(c)
       THEN [ops |-> {Manual(c, ByComponent, <<>>)}, ready |-> {Manual(c, ByComponent, <<>>)}]
       ELSE IF all = {}
       THEN [ops |-> {Manual(c, ByUnsupported, <<>>)}, ready |-> {Manual(c, ByUnsupported, <<>>)}]
       ELSE [ops |-> all, ready |-> first]

(* The registration waits for the mutations built before it, not for the   *)
(* reauthentication, which is made after it.                               *)
Prerequisites(c, o) ==
    ConfirmationPrerequisites(c, o)
    \cup {EnsureProvider(p) : p \in {ProviderOf(c, o)} \ {0}}
    \cup IF o.kind = "RegisterMcp" THEN Built(c).ops \ {o, Manual(c, ByReauth, <<>>)} ELSE {}

(* Automatic components need content for what they write, and no two of    *)
(* their operations may have the same identity.                            *)
BuildError(c) ==
    LET written == {a \in SelectedArtifacts(c) : ~ManualArtifact(c, a)}
    IN /\ Disposition(c) \notin {"Skip", "PreserveTarget"} /\ ~RequiresManual(c)
       /\ \/ ProviderIdentityError(c)
          \/ \E a \in written : pkg.art[a].object = 0
          \/ \E a, b \in written : /\ a # b /\ ArtifactOperation(c, a) = ArtifactOperation(c, b)

BuildComponentOperations ==
    /\ step = "build" /\ todo # <<>>
    /\ LET c == Head(todo)
           new == Built(c).ops
           providers == {p \in UNION {Prerequisites(c, o) : o \in new} : p.kind = "EnsureProvider"}
       IN IF BuildError(c)
          THEN Fail("SchemaInvalid") /\ UNCHANGED <<specs, mutations, readiness, owned>>
          ELSE /\ specs' = OrInsert(OrInsert(specs, [o \in new |-> [comp |-> c, pre |-> Prerequisites(c, o)]]),
                                    [o \in providers |-> [comp |-> c, pre |-> {}]])
               /\ mutations' = OrInsert(mutations, [x \in {c} |-> new])
               /\ owned' = OrInsert(owned, [x \in {c} |-> new])
               /\ readiness' = OrInsert(readiness, [x \in {c} |-> Built(c).ready])
               /\ UNCHANGED step
    /\ todo' = Tail(todo)
    /\ UNCHANGED <<selection, trust, selected, confirmations, order>>

(***************************************************************************)
(* Verification, dependencies, overlaps                                    *)
(***************************************************************************)
VerifyOps(c) == {Op("Verify", c, <<r>>, 0) : r \in pkg.comp[c].rules}

(* Faulty variant: a verification waits for the readiness operation only.  *)
VerifyPrerequisitesReady(c) == readiness[c]
VerifyPrerequisites(c) == mutations[c]

AddVerificationOperations ==
    /\ step = "build" /\ todo = <<>>
    /\ step' = "dependencies-first"
    /\ owned' = [c \in selected |-> owned[c] \cup VerifyOps(c)]
    /\ specs' = OrInsert(specs, [o \in UNION {VerifyOps(c) : c \in selected} |->
                                   [comp |-> o.comp, pre |-> VerifyPrerequisites(o.comp)]])
    /\ UNCHANGED <<todo, selection, trust, selected, confirmations, mutations, readiness, order>>

(* Every operation of a dependent waits for its dependency's readiness     *)
(* operation, if there is one.                                             *)
AddDependencyPrerequisites ==
    /\ step = "dependencies-first"
    /\ step' = IF Cardinality(DOMAIN specs) > MaxPlanOperations THEN "SecurityPolicy" ELSE "overlaps"
    /\ specs' = [o \in DOMAIN specs |->
                   [specs[o] EXCEPT !.pre = @ \cup UNION {readiness[p[2]] :
                       p \in {q \in DependencyPairs : o \in owned[q[1]]}}]]
    /\ UNCHANGED <<todo, selection, trust, selected, confirmations, mutations, readiness, owned, order>>

OrderOverlappingWrites ==
    /\ step = "overlaps"
    /\ step' = "emit"
    /\ LET writes == {o \in DOMAIN specs : o.kind \in WriteKinds}
       IN specs' = [o \in DOMAIN specs |->
                      IF o \in writes
                      THEN [specs[o] EXCEPT !.pre = @ \cup
                               {p \in writes \ {o} : PathsOverlap(p.dest, o.dest) /\ SortsBefore(p, o)}]
                      ELSE specs[o]]
    /\ UNCHANGED <<todo, selection, trust, selected, confirmations, mutations, readiness, owned, order>>

(***************************************************************************)
(* Topological order                                                       *)
(***************************************************************************)
Waiting == DOMAIN specs \ Range(order)
ReadyOps == {o \in Waiting : specs[o].pre \subseteq Range(order)}

(* Faulty variant: an operation is ready when one prerequisite is emitted. *)
EmitEarly ==
    /\ step = "emit"
    /\ \E o \in Waiting :
          /\ specs[o].pre = {} \/ specs[o].pre \cap Range(order) # {}
          /\ \A p \in Waiting \ {o} : SortsBefore(o, p) \/ specs[p].pre # {}
          /\ order' = Append(order, o)
    /\ UNCHANGED <<step, todo, selection, trust, selected, confirmations, specs, mutations, readiness, owned>>
(* The first of the ready operations is emitted next.                      *)
Emit ==
    /\ step = "emit"
    /\ \E o \in ReadyOps :
          /\ \A p \in ReadyOps \ {o} : SortsBefore(o, p)
          /\ order' = Append(order, o)
    /\ UNCHANGED <<step, todo, selection, trust, selected, confirmations, specs, mutations, readiness, owned>>

(* validate_restore_plan: every object an operation names is indexed, and  *)
(* no file operation is under a protected root.                            *)
ValidateRestorePlan ==
    /\ \A o \in DOMAIN specs : o.object \in pkg.objects \cup {0}
    /\ \A o \in DOMAIN specs : o.kind \in WriteKinds => Head(o.dest) \notin ProtectedRoots

EndOfOrder ==
    /\ step = "emit" /\ ReadyOps = {}
    /\ step' = IF Waiting # {} THEN "DependencyCycle"
               ELSE IF ValidateRestorePlan THEN "planned" ELSE "SchemaInvalid"
    /\ UNCHANGED <<todo, selection, trust, selected, confirmations, specs, mutations, readiness, owned, order>>

PlanStep ==
    \/ Approve \/ CloseSelection \/ EndOfClosure \/ SeedConfirmations
    \/ BuildComponentOperations \/ AddVerificationOperations \/ AddDependencyPrerequisites
    \/ OrderOverlappingWrites \/ Emit \/ EndOfOrder

Errors == {"SchemaInvalid", "PackageUntrusted", "SelectionIncomplete", "DependencyCycle",
           "TargetConflict", "SecurityPolicy"}

Planning ==
    /\ \/ DiffStep /\ UNCHANGED planVars
       \/ PlanStep /\ UNCHANGED <<present, conflicts, blocked, changed, used, backups>>
    /\ UNCHANGED <<pkg, target>>

plannerVars == <<pkg, target, diffVars, planVars>>
PlannerNext == Planning \/ (step \in Errors \cup {"planned"} /\ UNCHANGED plannerVars)
PlannerSpec == PlannerInit /\ [][PlannerNext]_plannerVars

(***************************************************************************)
(* Properties                                                              *)
(***************************************************************************)
Position(o) == IndexOf(order, o)
Before(o, p) == Position(o) < Position(p)
Planned == step = "planned"
Mutation(o) == o.kind \notin {"OpenManualAction", "Verify", "EnsureProvider"}

(* The plan holds every operation once, after all it has to wait for.      *)
PlanIsOrdered ==
    Planned =>
        /\ Range(order) = DOMAIN specs /\ Len(order) = Cardinality(DOMAIN specs)
        /\ \A o \in DOMAIN specs : \A p \in specs[o].pre : Before(p, o)

(* Two writes of the plan of which one contains or equals the other's      *)
(* destination never run in an order their prerequisites leave open.       *)
NoRacingWrites ==
    Planned =>
        \A o, p \in {x \in DOMAIN specs : x.kind \in WriteKinds} :
            o # p /\ Head(o.dest) = Head(p.dest)
            /\ (o.dest = p.dest \/ (Len(o.dest) > 1 /\ \E n \in DOMAIN p.dest : SubSeq(p.dest, 1, n) = o.dest))
                => o \in specs[p].pre \/ p \in specs[o].pre

(* Nothing of a component is changed before the user was asked all that    *)
(* its conflicts with the target call for.                                 *)
ConfirmedFirst ==
    Planned => \A o \in DOMAIN specs : Mutation(o) =>
                  \A x \in Relevant(conflicts) :
                      x.component = o.comp /\ x.confirm => Before(ConflictAction(x), o)

(* All operations that the n-th one of the plan waits for, directly or not. *)
WaitsFor[n \in 1..Len(order)] ==
    UNION {{p} \cup WaitsFor[Position(p)] : p \in specs[order[n]].pre}

(* Every selected component is verified, and a verification is held back   *)
(* by each mutation of its component and by each component that it depends *)
(* on (one that only has to sign in again excepted), so a failure of one   *)
(* of them cannot be taken for a verified state.                           *)
VerifiedAtTheEnd ==
    Planned => \A c \in selected :
                  /\ VerifyOps(c) # {}
                  /\ \A v \in VerifyOps(c) :
                        LET W == WaitsFor[Position(v)]
                        IN /\ mutations[c] \subseteq W
                           /\ \A p \in DependencyPairs : p[1] = c => readiness[p[2]] \subseteq W

(* Components that are not selected, that the target already has or whose  *)
(* target state is kept get no mutation, and a component whose files are   *)
(* merged is not installed over.                                           *)
TargetStateKept ==
    Planned => \A o \in DOMAIN specs : Mutation(o) =>
                  /\ o.comp \in selected
                  /\ Disposition(o.comp) \in {"Install", "Merge"}
                  /\ o.kind \in {"EnsureRuntime", "InstallPackage", "SetUserEnvironment", "InstallVsCodeExtension"}
                        => Disposition(o.comp) = "Install"

(***************************************************************************)
(* What the repository's specification promises and the code does not keep *)
(***************************************************************************)
(* Graph dependencies are sorted topologically: a component is restored    *)
(* after everything that restores what it depends on.                      *)
DependenciesFirst ==
    Planned => \A p \in DependencyPairs :
                  \A o \in mutations[p[1]], d \in mutations[p[2]] : Before(d, o)

(* Only a cycle of the selected dependencies is DEPENDENCY_CYCLE.          *)
AcyclicIsPlanned ==
    step = "DependencyCycle" => Cyclic(selected, DependencyPairs)

(* A runtime that the package itself installs need not be on the target.   *)
RuntimeBootstrapped ==
    step = "TargetConflict" =>
        \/ \E x \in Relevant(conflicts) : x.blocks
        \/ \E b \in Relevant(Evaluate(PayloadBytes).blockers) :
              ~(/\ b.code = "TargetConflict"
                /\ LET r == pkg.comp[b.component].runtime
                   IN r \in selected /\ PrimaryOperation(r) # {})
=============================================================================
