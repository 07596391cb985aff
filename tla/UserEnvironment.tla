--------------------------- MODULE UserEnvironment --------------------------
(***************************************************************************)
(* EnvironmentRestoreHandler and RegistryUserEnvironment (reforge-restore, *)
(* handlers/environment.rs): SetUserEnvironment and AppendUserPath on the  *)
(* values below HKCU\Environment, which other programs write as well.      *)
(*                                                                         *)
(* A value is a sequence of the entries between its semicolons.            *)
(***************************************************************************)
EXTENDS Naturals, Sequences, SequencesExt, FiniteSets

CONSTANTS
    Operations,    \* [kind, name, source, value]; kind: literal, reference, secret or append
    Registries,    \* what the registry may hold at first: name -> [type, value]
    Foreign,       \* entries other programs append to Path
    Key,           \* entry -> path_comparison_key
    Expandable,    \* entries that mean something only in a value of type expand
    Invalid,       \* entries with control characters
    Secret,        \* entries that look secret, and names that do
    MaxEntries,    \* MAX_PATH_ENTRIES
    MaxAttempts, MaxForeign

VARIABLES
    op, registry,
    pc, desired,   \* what `desired` returned: [kind, name, value]
    seen,          \* the Path that `desired` read
    outcome, attempts, foreign,
    owed           \* a change no broadcast has told

envVars == <<op, registry, pc, desired, seen, outcome, attempts, foreign, owed>>

Names == {"Path", "V", "W"}
Empty == ""
Absent == [type |-> "none", value |-> <<>>]
Values == [type : {"none", "sz", "expand", "other"}, value : Seq(DOMAIN Key)]

(* The comparison key of an entry is not empty unless the entry is.        *)
EnvironmentAssumption ==
    /\ \A e \in DOMAIN Key : Key[e] = Empty <=> e = Empty
    /\ \A r \in Registries : r \in [Names -> Values]
    /\ \A o \in Operations : /\ o.kind \in {"literal", "reference", "secret", "append"}
                             /\ o.value \in Seq(DOMAIN Key) /\ {o.name, o.source} \subseteq Names
    /\ Foreign \cup (Secret \ Names) \subseteq DOMAIN Key
Nothing == [kind |-> "none", name |-> "V", value |-> <<>>]

EnvInit ==
    /\ op \in Operations /\ registry \in Registries
    /\ pc = "idle" /\ desired = Nothing /\ seen = <<>> /\ outcome = "none"
    /\ attempts = 0 /\ foreign = 0 /\ owed = FALSE

(***************************************************************************)
(* The value an operation wants                                            *)
(***************************************************************************)
Failure == [kind |-> "error", name |-> "V", value |-> <<>>]
Manual == [kind |-> "manual", name |-> "V", value |-> <<>>]

Keys(v) == {Key[v[i]] : i \in DOMAIN v} \ {Empty}

(* RegistryUserEnvironment::read refuses what is no string.                *)
Readable(name) == registry[name].type \in {"none", "sz", "expand"}

(* The first of equal entries stays, empty ones go.                        *)
Unique(all) ==
    LET kept[n \in 0..Len(all)] ==
          IF n = 0 THEN <<>>
          ELSE IF all[n] = Empty \/ Key[all[n]] \in Keys(kept[n - 1]) THEN kept[n - 1]
          ELSE Append(kept[n - 1], all[n])
    IN kept[Len(all)]

(* Faulty variant: the requested entries come first.                       *)
PrependUnique(current, entries) == Unique(entries \o current)

(* append_unique_path.                                                     *)
AppendUnique(current, entries) == Unique(current \o entries)

DesiredPath ==
    LET all == registry["Path"].value \o op.value
        merged == AppendUnique(registry["Path"].value, op.value)
    IN IF \/ ~Readable("Path") \/ \E i \in DOMAIN all : all[i] \in Invalid
          \/ Len(op.value) > MaxEntries \/ Len(merged) > MaxEntries
       THEN Failure ELSE [kind |-> "path", name |-> "Path", value |-> merged]

Clean(v) == \A i \in DOMAIN v : v[i] \notin Invalid

(* looks_secret, looks_secret_name.                                        *)
LooksSecret(name, v) == name \in Secret \/ \E i \in DOMAIN v : v[i] \in Secret

(* Faulty variant: what a reference leads to is not looked at again.       *)
DesiredReferenceTrusting ==
    IF op.name \in Secret \/ op.source \in Secret THEN Manual
    ELSE IF ~Readable(op.source) \/ ~Clean(registry[op.source].value) THEN Failure
    ELSE IF registry[op.source].type = "none" THEN Manual
    ELSE [kind |-> "value", name |-> op.name, value |-> registry[op.source].value]

DesiredReference ==
    IF op.name \in Secret \/ op.source \in Secret THEN Manual
    ELSE IF ~Readable(op.source) \/ ~Clean(registry[op.source].value) THEN Failure
    ELSE IF registry[op.source].type = "none" \/ LooksSecret(op.name, registry[op.source].value)
    THEN Manual
    ELSE [kind |-> "value", name |-> op.name, value |-> registry[op.source].value]

Desired ==
    CASE op.kind = "append" -> DesiredPath
      [] op.kind = "reference" -> DesiredReference
      [] op.kind = "literal" ->
           IF ~Clean(op.value) THEN Failure
           ELSE IF LooksSecret(op.name, op.value) THEN Manual
           ELSE [kind |-> "value", name |-> op.name, value |-> op.value]
      [] op.kind = "secret" -> Manual

Matches(d) == registry[d.name].type # "none" /\ registry[d.name].value = d.value

(***************************************************************************)
(* The handler                                                             *)
(***************************************************************************)
Ends(result) == pc' = "idle" /\ outcome' = result

(* is_satisfied; the executor then calls execute.                          *)
IsSatisfied ==
    /\ pc = "idle" /\ outcome \notin {"completed", "skipped"} /\ attempts < MaxAttempts
    /\ attempts' = attempts + 1 /\ desired' = Desired
    /\ IF Desired.kind = "error" THEN Ends("failed")
       ELSE IF Desired.kind # "manual" /\ Readable(Desired.name) /\ Matches(Desired) THEN Ends("skipped")
       ELSE pc' = "execute" /\ outcome' = "none"
    /\ UNCHANGED <<op, registry, seen, foreign, owed>>

(* execute reads what it wants; a cancellation comes before or not at all. *)
Execute ==
    /\ pc = "execute"
    /\ \/ /\ Ends("cancelled") /\ UNCHANGED <<desired, seen>>
       \/ /\ desired' = Desired /\ seen' = registry["Path"].value
          /\ IF Desired.kind = "error" THEN Ends("failed")
             ELSE IF Desired.kind = "manual" THEN Ends("waiting")
             ELSE pc' = "apply" /\ outcome' = outcome
    /\ UNCHANGED <<op, registry, attempts, foreign, owed>>

(* apply reads the value once more, to leave it alone if it is there.      *)
Compare ==
    /\ pc = "apply"
    /\ IF ~Readable(desired.name) THEN Ends("failed")
       ELSE IF Matches(desired) THEN Ends("skipped")
       ELSE pc' = "write" /\ outcome' = outcome
    /\ UNCHANGED <<op, registry, desired, seen, attempts, foreign, owed>>

(* The value is written as REG_SZ, whatever its type was.                  *)
Write ==
    /\ pc = "write"
    /\ \/ Ends("failed") /\ UNCHANGED <<registry, owed>>
       \/ /\ registry' = [registry EXCEPT ![desired.name] = [type |-> "sz", value |-> desired.value]]
          /\ owed' = TRUE /\ pc' = "broadcast" /\ outcome' = outcome
    /\ UNCHANGED <<op, desired, seen, attempts, foreign>>

Broadcast ==
    /\ pc = "broadcast"
    /\ \/ Ends("failed") /\ UNCHANGED owed
       \/ Ends("completed") /\ owed' = FALSE
    /\ UNCHANGED <<op, registry, desired, seen, attempts, foreign>>

Crash ==
    /\ pc # "idle" /\ Ends("killed")
    /\ UNCHANGED <<op, registry, desired, seen, attempts, foreign, owed>>

(* Other programs: an installer appends to Path, something sets W.         *)
Other ==
    /\ foreign < MaxForeign /\ foreign' = foreign + 1
    /\ \/ \E x \in Foreign :
            /\ ~\E i \in DOMAIN registry["Path"].value : registry["Path"].value[i] = x
            /\ registry' = [registry EXCEPT !["Path"].value = Append(@, x), !["Path"].type = "expand"]
       \/ \E x \in Secret \ Names : registry' = [registry EXCEPT !["W"] = [type |-> "sz", value |-> <<x>>]]
       \/ registry' = [registry EXCEPT !["V"].type = "other"]
    /\ UNCHANGED <<op, pc, desired, seen, outcome, attempts, owed>>

EnvNext == IsSatisfied \/ Execute \/ Compare \/ Write \/ Broadcast \/ Crash \/ Other

EnvSpec == EnvInit /\ [][EnvNext]_envVars

(***************************************************************************)
(* Properties                                                              *)
(***************************************************************************)
First(v, k) == CHOOSE i \in DOMAIN v : Key[v[i]] = k /\ \A j \in 1..(i-1) : Key[v[j]] # k

(* A write to Path drops no directory of the Path it was made from, keeps  *)
(* their order, adds what was asked for and has no directory twice         *)
(* (append_unique_path).                                                   *)
PathIsMerged ==
    pc = "write" /\ pc' = "broadcast" /\ desired.kind = "path" =>
      LET new == registry'["Path"].value
      IN /\ Keys(new) = Keys(seen) \cup Keys(op.value)
         /\ Cardinality(Keys(new)) = Len(new)
         /\ \A a, b \in Keys(seen) : First(seen, a) < First(seen, b) => First(new, a) < First(new, b)
         /\ \A a \in Keys(seen), b \in Keys(op.value) \ Keys(seen) : First(new, a) < First(new, b)

(* A variable is set to nothing that looks secret, also when the variable  *)
(* a reference leads to becomes a secret meanwhile; the entries of Path    *)
(* are directories and are not looked at (desired).                        *)
NoSecretIsCopied ==
    pc = "write" /\ pc' = "broadcast" /\ desired.kind = "value" =>
        ~LooksSecret(desired.name, registry'[desired.name].value)

(***************************************************************************)
(* Said by the code or its documents, and not kept (see the README)        *)
(***************************************************************************)
(* The handler is done only when its last change was broadcast.            *)
ChangesAreBroadcast == outcome \in {"completed", "skipped"} => ~owed

(* Entries other programs appended stay in Path.                           *)
OthersAreKept ==
    pc = "write" /\ pc' = "broadcast" => Keys(registry["Path"].value) \subseteq Keys(registry'["Path"].value)

(* An entry that needs expansion stays in a value that is expanded.        *)
ExpansionIsKept ==
    \A i \in DOMAIN registry["Path"].value :
      registry["Path"].value[i] \in Expandable /\ registry["Path"].type = "expand"
         => registry'["Path"].type = "expand"
=============================================================================
