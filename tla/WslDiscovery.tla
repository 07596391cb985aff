---------------------------- MODULE WslDiscovery ----------------------------
(***************************************************************************)
(* WslAdapter (reforge-discovery, providers/wsl.rs): discover_with_runner  *)
(* lists the distributions, probes the Windows features and reads the      *)
(* configuration of every running distribution; discover_from_captures     *)
(* takes all of it, and exports, from recorded captures.  build_discovery  *)
(* makes components of either, which the adapter remembers for the plan,   *)
(* and plan_restore turns a discovery into operations.  The user starts,   *)
(* stops and removes distributions and cancels meanwhile; the adapter is   *)
(* shared by all its callers.                                              *)
(***************************************************************************)
EXTENDS Naturals, Sequences, FiniteSets, SequencesExt

CONSTANTS
    Worlds,        \* functions from a distribution to [state, version]; 0: not known
    Exports,       \* captured exports: functions to [artifact, result]
    MaxRounds,     \* bounds the discoveries with one adapter
    MaxChanges

VARIABLES
    world,
    pc, round,
    listing,       \* `wsl --list --verbose`: a function like world
    exports,       \* the captured exports of this round
    features,      \* "enabled", "disabled" or "unknown" of each feature
    toQuery, configs, warnings,
    discoveries,   \* the finished ones: [components, exports, configs, warnings, queried]
    metadata,      \* WslAdapter::metadata: components to [artifact, version]
    plans,         \* [round, operations]
    started,       \* history: distributions a query has started
    changes

wdVars == <<world, pc, round, listing, exports, features, toQuery, configs, warnings,
            discoveries, metadata, plans, started, changes>>

Features == {"subsystem", "vm"}
Config == "wslconfig"
NoExports == <<>>

(* There are finitely many distributions, and none has the name of a       *)
(* feature or of the configuration.                                        *)
WslAssumption ==
    \A w \in Worlds :
        /\ IsFiniteSet(DOMAIN w) /\ DOMAIN w \cap (Features \cup {Config}) = {}
        /\ w = [d \in DOMAIN w |-> [state |-> w[d].state, version |-> w[d].version]]

WdInit ==
    /\ world \in Worlds /\ pc = "idle" /\ round = 0
    /\ listing = <<>> /\ exports = NoExports /\ features = <<>>
    /\ toQuery = {} /\ configs = {} /\ warnings = {}
    /\ discoveries = <<>> /\ metadata = <<>> /\ plans = {} /\ started = {} /\ changes = 0

Listed == DOMAIN listing

(* parse_list_output: what is registered at the moment, with its state.    *)
Registered == [d \in {x \in DOMAIN world : world[x].state # "gone"} |-> world[d]]

Abandon == pc' = "idle" /\ UNCHANGED <<discoveries, metadata>>

(***************************************************************************)
(* discover_with_runner                                                    *)
(***************************************************************************)
(* The two commands: one that fails, times out or is cancelled ends it.    *)
List ==
    /\ pc = "idle" /\ round < MaxRounds /\ round' = round + 1
    /\ \/ /\ pc' = "probe" /\ exports' = NoExports /\ configs' = {} /\ warnings' = {}
          /\ listing' = Registered
          /\ toQuery' = {d \in DOMAIN listing' : listing'[d].state = "running"}
       \/ UNCHANGED <<pc, exports, configs, warnings, listing, toQuery>>
    /\ UNCHANGED <<world, features, discoveries, metadata, plans, started, changes>>

(* The feature probe and parse_prerequisites: what is not answered is      *)
(* unknown, and a cancelled probe ends the discovery.                      *)
Probe ==
    /\ pc = "probe"
    /\ \/ \E f \in [Features -> {"enabled", "disabled", "unknown"}] :
             /\ features' = f /\ pc' = "query"
             /\ warnings' = IF "unknown" \in Range(f) THEN warnings \cup {"features"} ELSE warnings
             /\ UNCHANGED <<discoveries, metadata>>
       \/ /\ features' = [f \in Features |-> "unknown"] /\ pc' = "query"
          /\ warnings' = warnings \cup {"probe", "features"}
          /\ UNCHANGED <<discoveries, metadata>>
       \/ Abandon /\ UNCHANGED <<features, warnings>>
    /\ UNCHANGED <<world, round, listing, exports, toQuery, configs, plans, started, changes>>

(* Faulty variant: a query that fails is left out.                         *)
QueryQuietly(d) ==
    /\ pc = "query" /\ d \in toQuery /\ toQuery' = toQuery \ {d}
    /\ configs' \in {configs, configs \cup {d}}
    /\ UNCHANGED <<world, pc, round, listing, exports, features, warnings, discoveries, metadata, plans, started, changes>>

(* `wsl --distribution d -- cat`, for those that were running when they    *)
(* were listed: it starts a distribution that is not.                      *)
Query(d) ==
    /\ pc = "query" /\ d \in toQuery /\ toQuery' = toQuery \ {d}
    /\ \/ /\ world[d].state # "gone" /\ configs' = configs \cup {d}
          /\ world' = [world EXCEPT ![d].state = "running"]
          /\ started' = IF world[d].state = "stopped" THEN started \cup {d} ELSE started
          /\ UNCHANGED <<pc, warnings, discoveries, metadata>>
       \/ /\ warnings' = warnings \cup {d}
          /\ UNCHANGED <<world, pc, configs, discoveries, metadata, started>>
       \/ Abandon /\ UNCHANGED <<world, configs, warnings, started>>    \* cancelled
    /\ UNCHANGED <<round, listing, exports, features, plans, changes>>

(***************************************************************************)
(* discover_from_captures                                                  *)
(***************************************************************************)
Capture ==
    /\ pc = "idle" /\ round < MaxRounds /\ round' = round + 1
    /\ exports' \in Exports /\ pc' = "build"
    /\ listing' = Registered
    /\ features' = [f \in Features |-> "enabled"]
    /\ toQuery' = {} /\ configs' = {} /\ warnings' = {}
    /\ UNCHANGED <<world, discoveries, metadata, plans, started, changes>>

(***************************************************************************)
(* build_discovery                                                         *)
(***************************************************************************)
(* Faulty variant: a failed export keeps its artifact.                     *)
ArtifactOfAny(d) ==
    IF d \in DOMAIN exports /\ exports[d].artifact \in {"export", "verified"} THEN exports[d].artifact ELSE "none"

(* The export of a distribution: its policy must be one for large data,    *)
(* and a failed export has no artifact.                                    *)
ArtifactOf(d) ==
    IF d \in DOMAIN exports /\ exports[d].artifact \in {"export", "verified"} /\ exports[d].result # "failed"
    THEN exports[d].artifact ELSE "none"

Eligibility(d) ==
    CASE d \in DOMAIN exports /\ exports[d].result = "ok" -> "eligible"
      [] d \in DOMAIN exports /\ exports[d].result = "failed" -> "failed"
      [] OTHER -> IF ArtifactOf(d) # "none" THEN "eligible"
                  ELSE IF listing[d].version # 0 THEN "explicit" ELSE "unavailable"

(* Faulty variant: the platform for virtual machines is forgotten.         *)
RequiredSubsystem == {"subsystem"}

(* The features a distribution waits for: the virtual machine platform as  *)
(* soon as one distribution is of version 2.                               *)
RequiredFeatures ==
    {"subsystem"} \cup IF \E d \in Listed : listing[d].version = 2 THEN {"vm"} ELSE {}

(* component_for_resource and component_for_config, which also remember.   *)
Resources(withConfig) ==
    [c \in Listed \cup Features \cup (IF withConfig THEN {Config} ELSE {}) |->
        IF c \in Listed THEN [kind |-> "distribution", artifact |-> ArtifactOf(c), after |-> RequiredFeatures]
        ELSE [kind |-> IF c = Config THEN "config" ELSE "feature", artifact |-> "none", after |-> {}]]

(* The adapter's map: what was known of the same components is replaced.   *)
(* The code inserts them one after the other, under its lock each; a plan  *)
(* made meanwhile is not modelled.                                         *)
Remember(resources) ==
    metadata' = [c \in DOMAIN resources \cup DOMAIN metadata |->
                    IF c \in DOMAIN resources THEN resources[c] ELSE metadata[c]]

(* A cancelled export ends it before anything is remembered.               *)
Build ==
    /\ pc = "build" \/ (pc = "query" /\ toQuery = {})
    /\ IF \E d \in Listed : d \in DOMAIN exports /\ exports[d].result = "cancelled"
       THEN Abandon
       ELSE \E withConfig \in BOOLEAN :
              /\ Remember(Resources(withConfig))
              /\ discoveries' = Append(discoveries,
                    [components |-> Resources(withConfig), listing |-> listing, configs |-> configs,
                     eligible |-> [d \in Listed |-> Eligibility(d)],
                     warnings |-> warnings,
                     ran |-> pc = "query", exports |-> exports])
              /\ pc' = "idle"
    /\ UNCHANGED <<world, round, listing, exports, features, toQuery, configs, warnings, plans, started, changes>>

(***************************************************************************)
(* plan_restore                                                            *)
(***************************************************************************)
Of(components, kind) == {c \in DOMAIN components : components[c].kind = kind}

(* operation_for_resource: resource_for_component asks the adapter.        *)
Operation(c, prerequisites) ==
    [component |-> c, prerequisites |-> prerequisites,
     kind |-> IF metadata[c].artifact = "verified" THEN "import" ELSE "manual"]

Each(S, before) == [i \in 1..Cardinality(S) |-> Operation(SetToSeq(S)[i], before[SetToSeq(S)[i]])]

(* Features first, then distributions, then the configuration.             *)
Operations(components) ==
    LET reviews == Of(components, "feature")
        imports == Of(components, "distribution")
    IN Each(reviews, [f \in reviews |-> {}]) \o
       Each(imports, [d \in imports |-> components[d].after \cap reviews]) \o
       Each(Of(components, "config"), [c \in Of(components, "config") |-> reviews \cup imports])

PlanRestore(r) ==
    /\ r \in DOMAIN discoveries /\ \A p \in plans : p.of # r
    /\ plans' = plans \cup {[of |-> r, latest |-> r = Len(discoveries),
                             operations |-> Operations(discoveries[r].components)]}
    /\ UNCHANGED <<world, pc, round, listing, exports, features, toQuery, configs, warnings,
                   discoveries, metadata, started, changes>>

(* The user starts, stops and unregisters distributions.                   *)
UserChange(d) ==
    /\ changes < MaxChanges /\ changes' = changes + 1
    /\ \E s \in {"running", "stopped", "gone"} \ {world[d].state} :
          world[d].state # "gone" /\ world' = [world EXCEPT ![d].state = s]
    /\ UNCHANGED <<pc, round, listing, exports, features, toQuery, configs, warnings,
                   discoveries, metadata, plans, started>>

WdNext ==
    \/ List \/ Probe \/ Capture \/ Build
    \/ \E d \in DOMAIN world : Query(d) \/ UserChange(d)
    \/ \E r \in DOMAIN discoveries : PlanRestore(r)

WdSpec == WdInit /\ [][WdNext]_wdVars

(***************************************************************************)
(* Properties                                                              *)
(***************************************************************************)
Position(operations, c) == CHOOSE i \in DOMAIN operations : operations[i].component = c

(* "prerequisite reviews first, distribution import second, and tokenized  *)
(* Windows config review after the distribution": every operation comes    *)
(* after the ones it waits for, and a distribution of version 2 waits for  *)
(* both features.                                                          *)
PlanIsOrdered ==
    \A p \in plans :
        LET ops == p.operations
            found == discoveries[p.of].listing
        IN \A i \in DOMAIN ops :
              /\ \A c \in ops[i].prerequisites : Position(ops, c) < i
              /\ ops[i].component \in DOMAIN found => "subsystem" \in ops[i].prerequisites
              /\ ops[i].component \in DOMAIN found /\ found[ops[i].component].version = 2 =>
                    "vm" \in ops[i].prerequisites

(* A plan made of the adapter's latest discovery imports only a            *)
(* distribution whose export has an object and did not fail.               *)
ImportIsVerified ==
    \A p \in plans : p.latest =>
        \A i \in DOMAIN p.operations : p.operations[i].kind = "import" =>
            LET export == discoveries[p.of].exports[p.operations[i].component]
            IN export.artifact = "verified" /\ export.result # "failed"

(* Every distribution that ran when it was listed has its configuration or *)
(* a warning in the discovery, whatever happened to it meanwhile.          *)
QueryIsAccountedFor ==
    \A r \in DOMAIN discoveries : discoveries[r].ran =>
        \A d \in DOMAIN discoveries[r].listing : discoveries[r].listing[d].state = "running" =>
            d \in discoveries[r].configs \cup discoveries[r].warnings

(***************************************************************************)
(* Said by the code or its documents, and not kept (see the README)        *)
(***************************************************************************)
(* "stopped distros are left manual so discovery never starts them         *)
(* implicitly".                                                            *)
NeverStarted == started = {}

(* "A typed import is emitted only when selection has supplied a verified  *)
(* export object": for the discovery that is planned.                      *)
PlanFitsDiscovery ==
    \A p \in plans : \A i \in DOMAIN p.operations :
        p.operations[i].kind = "import" =>
            discoveries[p.of].components[p.operations[i].component].artifact = "verified"
=============================================================================
