----------------------------- MODULE Selection -----------------------------
(***************************************************************************)
(* build_selection_closure (reforge-domain/src/selection.rs): the          *)
(* components the user picked are closed under required edges, and every   *)
(* component and artifact that ends up in the closure passes the policy    *)
(* the user chose for secrets, large data and unknown binaries.  The same  *)
(* function runs when a package is created and again when a restore is     *)
(* planned from it.                                                        *)
(*                                                                         *)
(* Identifiers are numbers, so that the order of a BTreeSet is their       *)
(* order.  A warning is the pair of its subject and its reason.            *)
(***************************************************************************)
EXTENDS Naturals, Sequences, FiniteSets, FiniteSetsExt, SequencesExt

CONSTANTS
    Inventories,      \* inventory graphs to choose from, see InventoryOK
    Requests,         \* selection inputs to choose from
    Large,            \* DEFAULT_LARGE_ARTIFACT_THRESHOLD_BYTES
    MaxU64,           \* largest value of a size
    MaxComponents,    \* MAX_SELECTED_COMPONENTS
    MaxArtifacts,     \* MAX_SELECTED_ARTIFACTS
    MaxWarnings       \* MAX_SELECTION_WARNINGS

(* A ComponentGraph: finitely many components, artifacts with an owner and *)
(* a size, and edges.                                                      *)
InventoryOK(v) ==
    /\ DOMAIN v.comp \subseteq Nat /\ IsFiniteSet(DOMAIN v.comp)
    /\ DOMAIN v.art \subseteq Nat /\ IsFiniteSet(DOMAIN v.art)
    /\ \A a \in DOMAIN v.art : v.art[a].owner \in Nat /\ v.art[a].size \in Nat
    /\ IsFiniteSet(v.edges)
    /\ \A e \in v.edges : {e.from, e.to} \subseteq Nat /\ e.required \in BOOLEAN

(* A SelectionInput: lists of identifiers and the choice for each class.   *)
RequestOK(r) ==
    /\ r.components \in Seq(Nat)
    /\ r.artifacts \in Seq([artifact : Nat, include : BOOLEAN])
    /\ r.secrets \in {"Exclude", "VaultExplicit"}
    /\ r.binaries \in {"Exclude", "PortableBinaryExplicit"}

SelectionAssumption ==
    /\ \A v \in Inventories : InventoryOK(v)
    /\ \A r \in Requests : RequestOK(r)
    /\ {Large, MaxU64, MaxComponents, MaxWarnings} \subseteq Nat

VARIABLES
    inv,        \* ComponentGraph: components, artifacts, edges
    request,    \* SelectionInput
    pc,         \* the step of the function, or how it returned
    selected,   \* selected_components
    auto,       \* auto_added_dependencies
    pending,    \* the work stack of the closure, then the components to visit
    chosen,     \* selected_artifacts
    bytes,      \* total_bytes
    warnings    \* warnings pushed so far

selVars == <<inv, request, pc, selected, auto, pending, chosen, bytes, warnings>>

Components == DOMAIN inv.comp
Artifacts == DOMAIN inv.art
Errors == {"SelectionIncomplete", "SecurityPolicy"}
Roots == Range(request.components)

(* A BTreeSet or BTreeMap of the given members, as it is iterated.         *)
Ordered(S, Before(_, _)) ==
    CHOOSE s \in [1..Cardinality(S) -> S] :
        Range(s) = S /\ \A i, j \in DOMAIN s : i < j => Before(s[i], s[j])
Sorted(S) == Ordered(S, <)

OutEdges(c) == {e \in inv.edges : e.from = c}

(* The user's decision about an artifact, from index_artifact_selection.   *)
Explicit(a) == \E d \in Range(request.artifacts) : d.artifact = a
Decision(a) == (CHOOSE d \in Range(request.artifacts) : d.artifact = a).include

SelectionInit ==
    /\ inv \in Inventories
    /\ request \in Requests
    /\ pc = "index"
    /\ selected = {} /\ auto = {} /\ pending = <<>>
    /\ chosen = {} /\ bytes = 0 /\ warnings = {}

Fail(code) ==
    /\ pc' = code
    /\ UNCHANGED <<inv, request, selected, auto, pending, chosen, bytes, warnings>>

(* Faulty variant: warnings are collected without a limit.                 *)
TooManyNever(ws) == FALSE
(* push_warning: every warning of a visit, refused beyond the limit.       *)
TooMany(ws) == Cardinality(warnings \cup ws) > MaxWarnings

(***************************************************************************)
(* index_artifact_selection, the component limit, user_selected_components *)
(***************************************************************************)
HasDuplicates(s) == Cardinality(Range(s)) # Len(s)

Index ==
    /\ pc = "index"
    /\ LET listed == [i \in DOMAIN request.artifacts |-> request.artifacts[i].artifact]
       IN IF ~ Range(listed) \subseteq Artifacts \/ HasDuplicates(listed)
          THEN Fail("SelectionIncomplete")
          ELSE IF Len(request.components) > MaxComponents
          THEN Fail("SecurityPolicy")
          ELSE IF ~ Roots \subseteq Components \/ HasDuplicates(request.components)
          THEN Fail("SelectionIncomplete")
          ELSE /\ selected' = Roots
               /\ pending' = Sorted(Roots)
               /\ pc' = "close"
               /\ UNCHANGED <<inv, request, auto, chosen, bytes, warnings>>

(***************************************************************************)
(* The closure: pop a component, add the targets of its required edges.    *)
(***************************************************************************)
(* Faulty variant: optional edges are followed as well.                    *)
FollowedAll(c) == {e.to : e \in OutEdges(c)}
Followed(c) == {e.to : e \in {x \in OutEdges(c) : x.required}}

Close ==
    /\ pc = "close" /\ pending # <<>>
    /\ LET source == Last(pending)
           gone == Followed(source) \ Components
           fresh == {c \in Followed(source) \ selected : \A g \in gone : c < g}
       IN CASE Cardinality(selected \cup fresh) > MaxComponents -> Fail("SecurityPolicy")
            [] Cardinality(selected \cup fresh) <= MaxComponents /\ gone # {} ->
                 Fail("SelectionIncomplete")
            [] OTHER ->
                 /\ selected' = selected \cup fresh
                 /\ auto' = auto \cup fresh
                 /\ pending' = Front(pending) \o Sorted(fresh)
                 /\ UNCHANGED <<inv, request, pc, chosen, bytes, warnings>>

(* Warnings about added and about optional dependencies.                   *)
ExposeOptionalEdges ==
    /\ pc = "close" /\ pending = <<>>
    /\ LET added == {<<c, "added">> : c \in auto}
           optional == {<<e.to, IF e.to \in Components THEN "available" ELSE "unavailable">> :
                        e \in {x \in inv.edges : /\ x.from \in selected /\ ~x.required
                                                 /\ x.to \notin selected}}
       IN IF TooMany(added \cup optional) THEN Fail("SecurityPolicy")
          ELSE /\ warnings' = warnings \cup added \cup optional
               /\ pc' = "components"
               /\ pending' = Sorted(selected)
               /\ UNCHANGED <<inv, request, selected, auto, chosen, bytes>>

(***************************************************************************)
(* Policy of one component                                                 *)
(***************************************************************************)
IsSecret(c) == inv.comp[c].sensitive \/ inv.comp[c].kind = "SecretReference"

ArtifactsOf(c) == {a \in Artifacts : inv.art[a].owner = c}

(* Faulty variant: only the kind of the component is looked at.            *)
IsUnknownBinaryByKind(c) == inv.comp[c].kind = "PortableBinary"
IsUnknownBinary(c) ==
    \/ inv.comp[c].kind = "PortableBinary"
    \/ inv.comp[c].strategy = "PortableBinary"
    \/ \E a \in ArtifactsOf(c) : inv.art[a].policy = "PortableBinary"
    \/ inv.comp[c].kind = "Unknown" /\ inv.comp[c].executable

ComponentError(c) ==
    IF IsSecret(c) /\ (request.secrets = "Exclude" \/ TooMany({<<c, "vault">>}))
    THEN "SecurityPolicy"
    ELSE IF IsUnknownBinary(c) /\ request.binaries = "Exclude" THEN "SecurityPolicy"
    ELSE IF IsUnknownBinary(c) /\ ~inv.comp[c].hash THEN "SelectionIncomplete"
    ELSE "none"

ComponentWarnings(c) ==
    (IF IsSecret(c) THEN {<<c, "vault">>} ELSE {})
    \cup (IF IsUnknownBinary(c) /\ ~inv.comp[c].source THEN {<<c, "source">>} ELSE {})
    \cup (IF IsUnknownBinary(c) /\ ~inv.comp[c].signed THEN {<<c, "signature">>} ELSE {})

ValidateComponentPolicy ==
    /\ pc = "components" /\ pending # <<>>
    /\ LET c == Head(pending)
       IN IF ComponentError(c) # "none" \/ TooMany(ComponentWarnings(c))
          THEN Fail(IF ComponentError(c) # "none" THEN ComponentError(c)
                    ELSE "SecurityPolicy")
          ELSE /\ warnings' = warnings \cup ComponentWarnings(c)
               /\ pending' = Tail(pending)
               /\ UNCHANGED <<inv, request, pc, selected, auto, chosen, bytes>>

(* The artifacts of one component after those of the one before.           *)
ByOwner(a, b) ==
    \/ inv.art[a].owner < inv.art[b].owner
    \/ inv.art[a].owner = inv.art[b].owner /\ a < b

(* An artifact listed for inclusion must belong to a selected component.   *)
CheckOwners ==
    /\ pc = "components" /\ pending = <<>>
    /\ IF \E d \in Range(request.artifacts) :
              d.include /\ inv.art[d.artifact].owner \notin selected
       THEN Fail("SelectionIncomplete")
       ELSE /\ pc' = "artifacts"
            /\ pending' = Ordered({a \in Artifacts : inv.art[a].owner \in selected}, ByOwner)
            /\ UNCHANGED <<inv, request, selected, auto, chosen, bytes, warnings>>

(***************************************************************************)
(* Policy of one artifact                                                  *)
(***************************************************************************)

DefaultArtifactSelection(a) ==
    /\ inv.art[a].policy \in {"Config", "Data", "Export"}
    /\ inv.art[a].size <= Large

Included(a) == IF Explicit(a) THEN Decision(a) ELSE DefaultArtifactSelection(a)

IsLarge(a) == inv.art[a].policy = "LargeOptIn" \/ inv.art[a].size > Large
SecretArtifact(a) == inv.art[a].policy = "SecretReference" \/ IsSecret(inv.art[a].owner)

ArtifactError(a) ==
    IF ~inv.art[a].valid THEN "SecurityPolicy"
    ELSE IF SecretArtifact(a)
            /\ (request.secrets = "Exclude" \/ TooMany({<<a, "secret artifact">>}))
    THEN "SecurityPolicy"
    ELSE IF IsLarge(a) /\ request.large = "Exclude" THEN "SecurityPolicy"
    ELSE IF IsLarge(a) /\ ~Explicit(a) THEN "SelectionIncomplete"
    ELSE "none"

ArtifactWarnings(a) ==
    (IF SecretArtifact(a) THEN {<<a, "secret artifact">>} ELSE {})
    \cup (IF IsLarge(a) THEN {<<a, "large artifact">>} ELSE {})
    \cup (IF inv.art[a].policy = "Manual" THEN {<<a, "manual artifact">>} ELSE {})

SelectArtifact ==
    /\ pc = "artifacts" /\ pending # <<>>
    /\ LET a == Head(pending)
       IN CASE ~Included(a) ->
                 /\ pending' = Tail(pending)
                 /\ UNCHANGED <<inv, request, pc, selected, auto, chosen, bytes, warnings>>
            [] Included(a) /\ ArtifactError(a) # "none" -> Fail(ArtifactError(a))
            [] Included(a) /\ ArtifactError(a) = "none"
               /\ (\/ TooMany(ArtifactWarnings(a))
                   \/ bytes + inv.art[a].size > MaxU64
                   \/ Cardinality(chosen \cup {a}) > MaxArtifacts) -> Fail("SecurityPolicy")
            [] OTHER ->
                 /\ chosen' = chosen \cup {a}
                 /\ bytes' = bytes + inv.art[a].size
                 /\ warnings' = warnings \cup ArtifactWarnings(a)
                 /\ pending' = Tail(pending)
                 /\ UNCHANGED <<inv, request, pc, selected, auto>>

CheckBytes ==
    /\ pc = "artifacts" /\ pending = <<>>
    /\ IF request.limited /\ bytes > request.limit THEN Fail("SecurityPolicy")
       ELSE /\ pc' = "selected"
            /\ UNCHANGED <<inv, request, selected, auto, pending, chosen, bytes, warnings>>

SelectionStep ==
    \/ Index \/ Close \/ ExposeOptionalEdges \/ ValidateComponentPolicy
    \/ CheckOwners \/ SelectArtifact \/ CheckBytes

Returned == pc \in Errors \cup {"selected"}
SelectionDone == Returned /\ UNCHANGED selVars

SelectionNext == SelectionStep \/ SelectionDone
SelectionSpec == SelectionInit /\ [][SelectionNext]_selVars

(***************************************************************************)
(* Properties                                                              *)
(***************************************************************************)
(* The closure's state stays within the inventory and its limits.          *)
SelectionTypeOK ==
    /\ pc \in Errors \cup {"index", "close", "components", "artifacts", "selected"}
    /\ auto \subseteq selected
    /\ chosen \subseteq Artifacts
    /\ bytes \in 0..MaxU64
    /\ Cardinality(warnings) <= MaxWarnings

Closed(S) == \A e \in inv.edges : e.required /\ e.from \in S => e.to \in S

(* What build_selection_closure returns is the least set that contains the *)
(* user's choice and is closed under required edges: nothing needed is     *)
(* missing, nothing else is added, and every addition is reported.         *)
LeastClosure ==
    pc = "selected" =>
        /\ Roots \subseteq selected /\ Closed(selected)
        /\ \A S \in SUBSET selected : Roots \subseteq S /\ Closed(S) => S = selected
        /\ auto = selected \ Roots
        /\ \A c \in auto : <<c, "added">> \in warnings

(* Secrets, large data and binaries of unknown origin enter the closure    *)
(* only if the user both allowed the class and, for payloads, named the    *)
(* artifact, however the component came to be selected.                    *)
NothingRiskyByDefault ==
    pc = "selected" =>
        /\ \A c \in selected :
              /\ IsSecret(c) => request.secrets = "VaultExplicit"
              /\ inv.comp[c].kind = "PortableBinary" \/ inv.comp[c].strategy = "PortableBinary"
                     => request.binaries = "PortableBinaryExplicit" /\ inv.comp[c].hash
        /\ \A a \in chosen :
              LET risky == inv.art[a].policy \in
                               {"LargeOptIn", "PortableBinary", "SecretReference", "Manual"}
                           \/ inv.art[a].size > Large
              IN /\ risky => Explicit(a) /\ Decision(a)
                 /\ inv.art[a].policy = "SecretReference" => request.secrets = "VaultExplicit"
                 /\ inv.art[a].policy = "PortableBinary" =>
                        request.binaries = "PortableBinaryExplicit"
=============================================================================
