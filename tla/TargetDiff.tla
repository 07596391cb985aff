----------------------------- MODULE TargetDiff -----------------------------
(***************************************************************************)
(* DiffEngine::compare (reforge-restore/src/diff.rs, conflicts.rs): every  *)
(* component of the package is compared with the target, each difference   *)
(* becomes a classified conflict, blocked components block the components  *)
(* that require them, and each component gets one disposition.             *)
(*                                                                         *)
(* A restore is planned from the package's graph and the facts of the      *)
(* target; neither changes while a plan is made.  Components and artifacts *)
(* are numbered; the numbers stand for the order of their identifiers.  An *)
(* identity is a partial function from the fields of ComponentIdentity,    *)
(* normalised text as model data.                                          *)
(***************************************************************************)
EXTENDS Naturals, Sequences, FiniteSets, FiniteSetsExt, SequencesExt

CONSTANTS
    Packages,   \* the package graphs to choose from
    Targets     \* the target facts to choose from

(* A package has finitely many components and edges; the segments of a     *)
(* numeric version are numbers.                                            *)
VersionOK(v) == v.kind = "numeric" => v.seg \in Seq(Nat)
PackageOK(p) ==
    /\ DOMAIN p.comp \subseteq Nat /\ IsFiniteSet(DOMAIN p.comp)
    /\ \A c \in DOMAIN p.comp : VersionOK(p.comp[c].version)
    /\ IsFiniteSet(p.edges)
    /\ \A e \in p.edges : {e.from, e.to} \subseteq Nat
TargetOK(t) == \A i \in DOMAIN t.installed : VersionOK(t.installed[i].version)
DiffAssumption == (\A p \in Packages : PackageOK(p)) /\ (\A t \in Targets : TargetOK(t))

VARIABLES
    pkg,         \* [comp, art, edges, os, arch]: PackageGraph and manifest
    target,      \* [installed, runtimes, env, arch, ...]: TargetFacts
    step,        \* the step of the comparison, or how it returned
    todo,        \* components, then required edges, still to visit
    present,     \* target_present of the visited components
    conflicts,   \* classified conflicts
    blocked,     \* components the dependency pass has found blocked
    changed,     \* whether this dependency pass found another one
    used,        \* target facts some component was matched with
    backups      \* backup requirements

diffVars == <<step, todo, present, conflicts, blocked, changed, used, backups>>

Components == DOMAIN pkg.comp
Artifacts == DOMAIN pkg.art
ArtifactsOf(c) == {a \in Artifacts : pkg.art[a].owner = c}
RequiredEdges == {e \in pkg.edges : e.required}

(* A BTreeSet or BTreeMap of the given members, as it is iterated.         *)
Ordered(S, Before(_, _)) ==
    CHOOSE s \in [1..Cardinality(S) -> S] :
        Range(s) = S /\ \A i, j \in DOMAIN s : i < j => Before(s[i], s[j])
Sorted(S) == Ordered(S, <)

(* architecture_matches: neutral fits everywhere, unknown fits nowhere.    *)
ArchitectureMatches(required, observed) ==
    \/ required = "neutral"
    \/ required # "unknown" /\ required = observed

InputInit == pkg \in Packages /\ target \in Targets

(***************************************************************************)
(* Identity and version                                                    *)
(***************************************************************************)
(* The groups of fields that identify a product when all of them agree.    *)
IdentityKeys ==
    {{"provider", "source", "package"}, {"family", "publisher"},
     {"product", "certificate"}, {"product", "publisher", "role"},
     {"executable", "hash"}}

IdentityMatches(s, t) ==
    \E key \in IdentityKeys :
        key \subseteq DOMAIN s \cap DOMAIN t /\ \A f \in key : s[f] = t[f]

Segment(v, i) == IF i <= Len(v.seg) THEN v.seg[i] ELSE 0

(* Numeric versions are compared segment by segment, padded with zeros.    *)
CompareNumericVersions(s, t) ==
    LET D == {i \in 1..Max({Len(s.seg), Len(t.seg)}) : Segment(s, i) # Segment(t, i)}
    IN IF D = {} THEN "Same"
       ELSE IF Segment(s, Min(D)) < Segment(t, Min(D)) THEN "TargetNewer"
       ELSE "TargetOlder"

(* Faulty variant: versions of different lengths are compared as far as    *)
(* the shorter one goes.                                                   *)
VersionRelationTruncated(s, t) ==
    IF s.kind = "numeric" /\ t.kind = "numeric"
    THEN LET n == Min({Len(s.seg), Len(t.seg)})
         IN CompareNumericVersions([s EXCEPT !.seg = SubSeq(@, 1, n)],
                                   [t EXCEPT !.seg = SubSeq(@, 1, n)])
    ELSE "DifferentUnknown"

VersionRelation(s, t) ==
    IF s = t THEN "Same"
    ELSE IF s.kind = "none" THEN "TargetNewer"
    ELSE IF "none" = t.kind \/ "text" \in {s.kind, t.kind} THEN "DifferentUnknown"
    ELSE CompareNumericVersions(s, t)

(***************************************************************************)
(* Conflicts                                                               *)
(***************************************************************************)
Resolution(kind, direction) ==
    CASE kind = "AlreadySatisfied" -> "Skip"
      [] kind = "VersionDifference" ->
            CASE direction = "TargetNewer" -> "Skip"
              [] direction = "TargetOlder" -> "Install"
              [] OTHER -> "PreserveTarget"
      [] kind \in {"ConfigDifference", "PathCollision"} -> "Merge"
      [] kind = "SecretCollision" -> "PreserveTarget"
      [] OTHER -> "Manual"

(* Faulty variant: nothing is confirmed.                                   *)
RequiresConfirmationNever(kind, direction) == FALSE
RequiresConfirmation(kind, direction) ==
    \/ kind \in {"ConfigDifference", "DataCollision", "SecretCollision", "PortCollision"}
    \/ kind = "VersionDifference" /\ direction # "TargetNewer"

BlocksPlanning(kind) ==
    kind \in {"DependencyConflict", "ArchitectureConflict", "UnsupportedTarget"}

Conflict(c, kind, suffix, direction) ==
    [component |-> c, kind |-> kind, suffix |-> suffix,
     resolution |-> Resolution(kind, direction),
     confirm |-> RequiresConfirmation(kind, direction),
     blocks |-> BlocksPlanning(kind)]

(***************************************************************************)
(* Comparison of one component                                             *)
(***************************************************************************)
CompareVersions(c, observed) ==
    LET r == VersionRelation(pkg.comp[c].version, observed)
    IN {Conflict(c, IF r = "Same" THEN "AlreadySatisfied" ELSE "VersionDifference", <<r, 0>>, r)}

Matches(c) == {i \in DOMAIN target.installed :
                   IdentityMatches(pkg.comp[c].id, target.installed[i].id)}

CompareInstalled(c) ==
    LET fact == target.installed[CHOOSE i \in Matches(c) : TRUE]
        crossed == "none" \notin {pkg.comp[c].channel, fact.channel}
                   /\ pkg.comp[c].channel # fact.channel
    IN CASE Matches(c) = {} -> [present |-> FALSE, found |-> {}, backups |-> {}]
         [] Cardinality(Matches(c)) = 1 ->
              [present |-> TRUE, backups |-> {},
               found |-> CompareVersions(c, fact.version)
                         \cup IF crossed
                              THEN {Conflict(c, "UnsupportedTarget", <<"source-channel", 0>>, "none")}
                              ELSE {}]
         [] OTHER ->
              [present |-> TRUE, backups |-> {},
               found |-> {Conflict(c, "UnsupportedTarget", <<"ambiguous-identity", 0>>, "none")}]

CompareRuntime(c) ==
    IF c \notin DOMAIN target.runtimes
    THEN [present |-> FALSE, found |-> {}, backups |-> {}]
    ELSE LET fact == target.runtimes[c]
         IN [present |-> TRUE, backups |-> {},
             found |-> CompareVersions(c, fact.version)
                       \cup IF pkg.comp[c].arch = "none" \/ fact.arch = "none"
                               \/ ArchitectureMatches(pkg.comp[c].arch, fact.arch)
                            THEN {} ELSE {Conflict(c, "ArchitectureConflict", <<"runtime", 0>>, "none")}]

(* Environment facts are keyed by scope and upper-case name.               *)
EnvironmentFact(c) == {x \in target.env : /\ x.name = pkg.comp[c].env.name
                                          /\ x.scope = pkg.comp[c].env.scope}

CompareEnvironment(c) ==
    LET wanted == pkg.comp[c].env
        fact == CHOOSE x \in EnvironmentFact(c) : TRUE
        kind == IF wanted.value # "none" /\ wanted.value = fact.value THEN "AlreadySatisfied"
                ELSE IF wanted.name = "PATH" THEN "PathCollision"
                ELSE IF wanted.name = "PORT" THEN "PortCollision"
                ELSE "ConfigDifference"
    IN CASE wanted.name = "invalid" ->
              [present |-> FALSE, backups |-> {},
               found |-> {Conflict(c, "UnsupportedTarget", <<"environment-name", 0>>, "none")}]
         [] wanted.name # "invalid" /\ EnvironmentFact(c) = {} ->
              [present |-> FALSE, found |-> {}, backups |-> {}]
         [] OTHER ->
              [present |-> TRUE, found |-> {Conflict(c, kind, <<wanted.name, 0>>, "none")},
               backups |-> IF kind \in {"ConfigDifference", "PathCollision"}
                           THEN {<<c, 0>>} ELSE {}]

CompareSecret(c) ==
    IF pkg.comp[c].env.name = "invalid" \/ EnvironmentFact(c) = {}
    THEN [present |-> FALSE, found |-> {}, backups |-> {}]
    ELSE [present |-> TRUE, backups |-> {},
          found |-> {Conflict(c, "SecretCollision", <<pkg.comp[c].env.name, 0>>, "none")}]

Compared(c) ==
    CASE pkg.comp[c].kind = "Runtime" -> CompareRuntime(c)
      [] pkg.comp[c].kind = "EnvironmentVariable" -> CompareEnvironment(c)
      [] pkg.comp[c].kind = "SecretReference" -> CompareSecret(c)
      [] OTHER -> CompareInstalled(c)

CompareArchitecture(c) ==
    IF pkg.comp[c].arch = "none" \/ ArchitectureMatches(pkg.comp[c].arch, target.arch)
    THEN {} ELSE {Conflict(c, "ArchitectureConflict", <<"target", 0>>, "none")}

CompareSupportedState(c) ==
    IF \/ pkg.comp[c].kind = "Unknown"
       \/ pkg.comp[c].strategy \in {"MachineBound", "Unknown"}
       \/ pkg.comp[c].strategy # "Manual" /\ ~pkg.comp[c].portable
    THEN {Conflict(c, "UnsupportedTarget", <<"restore-contract", 0>>, "none")} ELSE {}

(* Artifacts that compare_artifacts looks at, and the conflict each one    *)
(* makes when the component is already on the target.                      *)
Comparable(c) ==
    {a \in ArtifactsOf(c) : ~(/\ pkg.comp[c].kind \in {"EnvironmentVariable", "SecretReference"}
                              /\ pkg.art[a].policy = "SecretReference")}

ArtifactConflict(a) ==
    CASE pkg.art[a].policy = "Config" -> "ConfigDifference"
      [] pkg.art[a].policy = "SecretReference" -> "SecretCollision"
      [] pkg.art[a].policy = "Manual" -> "UnsupportedTarget"
      [] OTHER -> "DataCollision"

CompareArtifacts(c, isPresent) ==
    IF isPresent THEN {Conflict(c, ArtifactConflict(a), <<"artifact", a>>, "none") : a \in Comparable(c)} ELSE {}

ArtifactBackups(c) ==
    {<<c, a>> : a \in {x \in Comparable(c) :
                           pkg.art[x].policy \notin {"SecretReference", "Manual"}}}

(***************************************************************************)
(* The comparison                                                          *)
(***************************************************************************)
DiffInit ==
    /\ InputInit
    /\ step = "validate"
    /\ todo = Sorted(Components)
    /\ present = {} /\ conflicts = {} /\ blocked = {} /\ used = {} /\ backups = {}
    /\ changed = FALSE

(* validate_inputs: an edge to a missing component is refused.             *)
ValidateInputs ==
    /\ step = "validate"
    /\ step' = IF \A e \in pkg.edges : {e.from, e.to} \subseteq Components
               THEN "compare" ELSE "SchemaInvalid"
    /\ UNCHANGED <<todo, present, conflicts, blocked, changed, used, backups>>

Found(c) ==
    Compared(c).found \cup CompareArchitecture(c) \cup CompareSupportedState(c)
        \cup CompareArtifacts(c, Compared(c).present)

CompareComponent ==
    /\ step = "compare" /\ todo # <<>>
    /\ LET c == Head(todo)
       IN /\ present' = IF Compared(c).present THEN present \cup {c} ELSE present
          /\ conflicts' = conflicts \cup Found(c)
          /\ backups' = backups \cup Compared(c).backups \cup ArtifactBackups(c)
          /\ used' = IF pkg.comp[c].kind \in {"Runtime", "EnvironmentVariable", "SecretReference"}
                     THEN used ELSE used \cup Matches(c)
    /\ todo' = Tail(todo)
    /\ UNCHANGED <<step, blocked, changed>>

SortedEdges == Ordered(RequiredEdges, LAMBDA x, y :
                   x.from < y.from \/ (x.from = y.from /\ x.to <= y.to))

StartDependencies ==
    /\ step = "compare" /\ todo = <<>>
    /\ step' = "dependencies"
    /\ todo' = SortedEdges
    /\ blocked' = {x.component : x \in {y \in conflicts : y.blocks}}
    /\ changed' = FALSE
    /\ UNCHANGED <<present, conflicts, used, backups>>

(* One edge of a pass of add_dependency_conflicts.                         *)
AddDependencyConflict ==
    /\ step = "dependencies" /\ todo # <<>>
    /\ LET e == Head(todo)
       IN IF e.to \in blocked
          THEN /\ conflicts' = conflicts \cup {Conflict(e.from, "DependencyConflict", <<"requires", e.to>>, "none")}
               /\ blocked' = blocked \cup {e.from}
               /\ changed' = (changed \/ e.from \notin blocked)
          ELSE UNCHANGED <<conflicts, blocked, changed>>
    /\ todo' = Tail(todo)
    /\ UNCHANGED <<step, present, used, backups>>

(* Faulty variant: one pass is taken to be enough.                         *)
EndOfPassOnce ==
    /\ step = "dependencies" /\ todo = <<>>
    /\ step' = "compared" /\ UNCHANGED <<todo, changed>>
    /\ UNCHANGED <<present, conflicts, blocked, used, backups>>
EndOfPass ==
    /\ step = "dependencies" /\ todo = <<>>
    /\ IF changed THEN todo' = SortedEdges /\ changed' = FALSE /\ UNCHANGED step
       ELSE step' = "compared" /\ UNCHANGED <<todo, changed>>
    /\ UNCHANGED <<present, conflicts, blocked, used, backups>>

ConflictsOf(c) == {x \in conflicts : x.component = c}

(* disposition: the first that applies.                                    *)
Disposition(c) ==
    LET resolved(r) == \E x \in ConflictsOf(c) : x.resolution = r
    IN IF \E x \in ConflictsOf(c) : x.blocks THEN "Blocked"
       ELSE IF resolved("Manual") THEN "Manual"
       ELSE IF resolved("PreserveTarget") THEN "PreserveTarget"
       ELSE IF resolved("Merge") THEN "Merge"
       ELSE IF resolved("Install") \/ c \notin present THEN "Install"
       ELSE "Skip"

DiffStep ==
    \/ ValidateInputs \/ CompareComponent \/ StartDependencies
    \/ AddDependencyConflict \/ EndOfPass

DiffNext == \/ DiffStep /\ UNCHANGED <<pkg, target>>
            \/ step \in {"compared", "SchemaInvalid"} /\ UNCHANGED <<pkg, target, diffVars>>

DiffSpec == DiffInit /\ [][DiffNext]_<<pkg, target, diffVars>>

(***************************************************************************)
(* Properties                                                              *)
(***************************************************************************)
Directly == {x.component : x \in {y \in conflicts : y.blocks /\ y.kind # "DependencyConflict"}}

(* add_dependency_conflicts blocks exactly the components that need, over  *)
(* any number of required edges, one that cannot be restored.              *)
BlockedExactly ==
    step = "compared" =>
        LET B == {c \in Components : Disposition(c) = "Blocked"}
        IN /\ Directly \subseteq B
           /\ \A e \in RequiredEdges : e.to \in B => e.from \in B
           /\ \A S \in SUBSET B :
                 Directly \subseteq S /\ (\A e \in RequiredEdges : e.to \in S => e.from \in S)
                     => S = B

(* A component on the target is installed over only if the target's        *)
(* version is known to be older, and never without the user's consent; a   *)
(* merge into it needs consent too, except for PATH, which only grows.     *)
NoSilentChange ==
    step = "compared" =>
        \A c \in present :
            /\ Disposition(c) = "Install" =>
                   \E x \in ConflictsOf(c) : x.suffix = <<"TargetOlder", 0>> /\ x.confirm
            /\ Disposition(c) = "Merge" =>
                   \E x \in ConflictsOf(c) : x.confirm \/ x.kind = "PathCollision"

(* Where the version order is known the diff never calls the older side    *)
(* the newer one, whichever machine is the source.                         *)
VersionOrderSound ==
    step = "compared" =>
        \A c \in Components, i \in DOMAIN target.installed :
            LET s == pkg.comp[c].version
                t == target.installed[i].version
                known == {s.kind, t.kind} = {"numeric"}
                flip == [Same |-> "Same", TargetNewer |-> "TargetOlder", TargetOlder |-> "TargetNewer",
                         DifferentUnknown |-> "DifferentUnknown"]
            IN /\ known => VersionRelation(t, s) = flip[VersionRelation(s, t)]
               /\ known /\ VersionRelation(s, t) = "Same"
                      => \A k \in 1..Max({Len(s.seg), Len(t.seg)}) : Segment(s, k) = Segment(t, k)
=============================================================================
