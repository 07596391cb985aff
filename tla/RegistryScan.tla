---------------------------- MODULE RegistryScan ----------------------------
(***************************************************************************)
(* enumerate_registry_with (reforge-platform-windows, registry.rs): the    *)
(* requested roots are opened one after the other; the root's own values   *)
(* and then those of its subkeys are enumerated by index, each value with  *)
(* one call for its name, type and length and one for its data.  Nothing   *)
(* is locked: other programs delete keys and values, add values and change *)
(* data between any two calls.                                             *)
(*                                                                         *)
(* `registry` maps a root to the sequence of the keys under it, the root's *)
(* own key first; a key is [id, width, opens, values] and a value          *)
(* [id, width, type, len, secret], where width is the length of the name.  *)
(***************************************************************************)
EXTENDS Naturals, Sequences, FiniteSets, FiniteSetsExt, SequencesExt

CONSTANTS
    Registries,    \* what the registry holds at first
    Roots,         \* the requested roots, in their normalized order
    RunRoot,       \* the root whose values are never shown
    MaxValueBytes, MaxNameChars,
    NewValue,      \* a value another program may add
    MaxChanges

VARIABLES
    registry,
    pc, at,        \* at: the number of the root being scanned
    subkeys,       \* subkey_count and name_capacity of the root
    index,         \* of the next subkey
    key,           \* the open key: [id, count, width, large], or NoKey
    value,         \* the index of the next value
    info,          \* what the first of the two calls said of the value
    values,        \* read of the open key
    observations, errors,    \* RegistrySnapshot
    changes

(* A root has its own key first, keys and values are told apart by name,   *)
(* and sizes are numbers.                                                  *)
RegistryValues == [id : STRING, width : Nat, type : STRING, len : Nat, secret : BOOLEAN]
RegistryKeys == [id : STRING, width : Nat, opens : BOOLEAN, values : Seq(RegistryValues)]
RegistryAssumption ==
    /\ \A x \in Registries :
          /\ x \in [Range(Roots) -> Seq(RegistryKeys)]
          /\ \A r \in Range(Roots) :
                x[r] # <<>> /\ \A i, j \in DOMAIN x[r] : x[r][i].id = x[r][j].id => i = j
    /\ Roots \in Seq(STRING) /\ NewValue \in RegistryValues
    /\ MaxValueBytes \in Nat /\ MaxNameChars \in Nat /\ MaxChanges \in Nat

rsVars == <<registry, pc, at, subkeys, index, key, value, info, values, observations, errors, changes>>

NoKey == [id |-> "none", count |-> 0, width |-> 0, large |-> FALSE]
NoInfo == [id |-> "none", garbled |-> FALSE, type |-> "none", len |-> 0, secret |-> FALSE]

RsInit ==
    /\ registry \in Registries
    /\ pc = "root" /\ at = 1 /\ subkeys = [count |-> 0, width |-> 0] /\ index = 1
    /\ key = NoKey /\ value = 1 /\ info = NoInfo /\ values = <<>>
    /\ observations = {} /\ errors = {} /\ changes = 0

Root == Roots[at]
Keys == registry[Root]
RootKey == Keys[1]

(* record_error                                                            *)
RecordError(id, operation) == errors' = errors \cup {[key |-> id, operation |-> operation]}

(* The open key, as long as it exists.                                     *)
Open == {i \in DOMAIN Keys : Keys[i].id = key.id}
Values == Keys[CHOOSE i \in Open : TRUE].values

(* query_key_info and bounded_name_capacity: the longest name is counted   *)
(* without its end, and at most MaxNameChars.                              *)
LongestName(s) == Min({Max({0} \cup {s[i].width : i \in DOMAIN s}), MaxNameChars})

(* A buffer of the given capacity holds a name and its end.                *)
Fits(width, capacity) == width < capacity

(***************************************************************************)
(* scan_root                                                               *)
(***************************************************************************)
BeginValues(k) ==
    /\ key' = [id |-> k.id, count |-> Len(k.values), width |-> LongestName(k.values),
               large |-> \E i \in DOMAIN k.values : k.values[i].len > MaxValueBytes]
    /\ value' = 1 /\ values' = <<>> /\ pc' = "value"

OpenRoot ==
    /\ pc = "root" /\ at <= Len(Roots)
    /\ IF RootKey.opens
       THEN /\ subkeys' = [count |-> Len(Keys) - 1, width |-> LongestName(Tail(Keys))]
            /\ index' = 1 /\ BeginValues(RootKey) /\ UNCHANGED <<at, errors>>
       ELSE /\ RecordError(RootKey.id, "open") /\ at' = at + 1
            /\ UNCHANGED <<pc, subkeys, index, key, value, values>>
    /\ UNCHANGED <<registry, info, observations, changes>>

(* Faulty variant: a subkey whose name does not fit is passed over.        *)
NextSubkeySilently ==
    /\ pc = "subkey"
    /\ IF index > subkeys.count \/ index + 1 > Len(Keys)
       THEN pc' = "root" /\ at' = at + 1 /\ UNCHANGED <<index, key, value, values, errors>>
       ELSE LET k == Keys[index + 1]
            IN /\ index' = index + 1 /\ UNCHANGED at
               /\ IF ~Fits(k.width, subkeys.width) \/ ~k.opens
                  THEN UNCHANGED <<pc, key, value, values, errors>>
                  ELSE BeginValues(k) /\ UNCHANGED errors
    /\ UNCHANGED <<registry, subkeys, info, observations, changes>>

(* One step of the loop over the subkeys: the end, a name that does not    *)
(* fit, a key that does not open, or its values.                           *)
NextSubkey ==
    /\ pc = "subkey"
    /\ IF index > subkeys.count \/ index + 1 > Len(Keys)
       THEN pc' = "root" /\ at' = at + 1 /\ UNCHANGED <<index, key, value, values, errors>>
       ELSE LET k == Keys[index + 1]
            IN /\ index' = index + 1 /\ UNCHANGED at
               /\ IF ~Fits(k.width, subkeys.width)
                  THEN RecordError(RootKey.id, "enumerate subkeys") /\ UNCHANGED <<pc, key, value, values>>
                  ELSE IF ~k.opens
                  THEN RecordError(k.id, "open") /\ UNCHANGED <<pc, key, value, values>>
                  ELSE BeginValues(k) /\ UNCHANGED errors
    /\ UNCHANGED <<registry, subkeys, info, observations, changes>>

(***************************************************************************)
(* read_values                                                             *)
(***************************************************************************)
(* A value as it is shown: whose data, how much of it, of how much.        *)
Observed(of, shown, whole) ==
    values' = Append(values, [id |-> info'.id, type |-> info'.type, of |-> of, shown |-> shown, whole |-> whole])
Withheld(reason) == Observed(reason, 0, 0)

(* The first call.  A name that does not fit leaves the buffer as it was,  *)
(* and the call's answer is taken all the same.                            *)
NameValue ==
    /\ pc = "value"
    /\ IF Open # {} /\ value <= key.count /\ value <= Len(Values)
       THEN LET v == Values[value]
                garbled == ~Fits(v.width, key.width)
            IN /\ info' = [id |-> IF garbled THEN "garbled" ELSE v.id, garbled |-> garbled,
                           type |-> v.type, len |-> v.len, secret |-> v.secret /\ ~garbled]
               /\ value' = value + 1
               /\ CASE Root = RunRoot \/ info'.secret -> Withheld("redacted") /\ UNCHANGED pc
                    [] OTHER -> IF v.len > MaxValueBytes THEN Withheld("unavailable") /\ UNCHANGED pc
                                ELSE IF v.len = 0 THEN Withheld("empty") /\ UNCHANGED pc
                                ELSE pc' = "data" /\ UNCHANGED values
               /\ UNCHANGED <<key, errors, observations>>
       ELSE IF Open = {} /\ value <= key.count
       THEN /\ RecordError(key.id, "enumerate values") /\ value' = value + 1
            /\ UNCHANGED <<pc, key, info, values, observations>>
       ELSE /\ observations' = IF values = <<>> THEN observations
                               ELSE observations \cup {[key |-> key.id, values |-> values]}
            /\ IF key.large THEN RecordError(key.id, "read value") ELSE UNCHANGED errors
            /\ pc' = "subkey" /\ key' = NoKey /\ info' = NoInfo /\ UNCHANGED <<value, values>>
    /\ UNCHANGED <<registry, at, subkeys, index, changes>>

(* Faulty variant: a value that grew is taken as far as the buffer goes.   *)
ReadTruncated ==
    /\ pc = "data" /\ UNCHANGED info
    /\ IF Open # {} /\ value - 1 <= Len(Values)
       THEN LET v == Values[value - 1] IN Observed(v.id, Min({v.len, info.len}), v.len) /\ UNCHANGED errors
       ELSE Withheld("unavailable") /\ RecordError(key.id, "read value")
    /\ pc' = "value"
    /\ UNCHANGED <<registry, at, subkeys, index, key, value, observations, changes>>

(* The second call, by the same index: the data of the value that is there *)
(* now, decoded as the type the first call named.                          *)
ReadValue ==
    /\ pc = "data" /\ UNCHANGED info
    /\ LET there == Open # {} /\ value - 1 <= Len(Values)
           v == Values[value - 1]
       IN IF there /\ Fits(v.width, key.width) /\ v.len <= info.len
          THEN Observed(v.id, v.len, v.len) /\ UNCHANGED errors
          ELSE Withheld("unavailable") /\ RecordError(key.id, "read value")
    /\ pc' = "value"
    /\ UNCHANGED <<registry, at, subkeys, index, key, value, observations, changes>>

(***************************************************************************)
(* Other programs                                                          *)
(***************************************************************************)
Change(r) ==
    /\ changes < MaxChanges /\ changes' = changes + 1
    /\ \/ \E i \in 2..Len(registry[r]) : registry' = [registry EXCEPT ![r] = RemoveAt(@, i)]
       \/ \E i \in DOMAIN registry[r] :
             \/ \E j \in DOMAIN registry[r][i].values :
                   \/ registry' = [registry EXCEPT ![r][i].values = RemoveAt(@, j)]
                   \/ registry' = [registry EXCEPT ![r][i].values[j].len = @ + 1]
             \/ registry' = [registry EXCEPT ![r][i].values = <<NewValue>> \o @]
    /\ UNCHANGED <<pc, at, subkeys, index, key, value, info, values, observations, errors>>

RsNext ==
    \/ OpenRoot \/ NextSubkey \/ NameValue \/ ReadValue
    \/ \E r \in Range(Roots) : Change(r)

RsSpec == RsInit /\ [][RsNext]_rsVars

(***************************************************************************)
(* Properties                                                              *)
(***************************************************************************)
Finished == at > Len(Roots)
Seen == {o.key : o \in observations}
Failed == {e.key : e \in errors}

(* In a registry at rest every key with values is observed or stands,      *)
(* itself or with its root, among the errors, and a root that fails does   *)
(* not keep the next ones from being read.                                 *)
StillIsAccountedFor ==
    Finished /\ changes = 0 =>
        \A r \in Range(Roots) : \A i \in DOMAIN registry[r] :
            \/ registry[r][i].values = <<>>
            \/ registry[r][i].id \in Seen \cup Failed
            \/ registry[r][1].id \in Failed

(* Data is shown whole or not at all, within the limit, also when a value  *)
(* grows between the call that measures it and the call that reads it.     *)
DataIsWhole ==
    \A o \in observations : \A i \in DOMAIN o.values : o.values[i].shown = o.values[i].whole /\ o.values[i].shown <= MaxValueBytes

(***************************************************************************)
(* Said by the code or its documents, and not kept (see the README)        *)
(***************************************************************************)
(* Every subkey that can be opened is read ("Enumerate all configured      *)
(* uninstall, App Paths, current-user Run, and environment roots").        *)
OpenableIsRead ==
    Finished /\ changes = 0 =>
        \A r \in Range(Roots) : registry[r][1].opens =>
            \A i \in DOMAIN registry[r] :
                registry[r][i].opens /\ registry[r][i].values # <<>> => registry[r][i].id \in Seen

(* A key that stays is not lost because another one goes ("retained as     *)
(* evidence instead of silently dropping a key").                          *)
NoKeyIsLost ==
    Finished =>
        \A r \in Range(Roots) : \A i \in DOMAIN registry[r] :
            \/ registry[r][i].values = <<>>
            \/ registry[r][i].id \in Seen \cup Failed \/ registry[r][1].id \in Failed

(* What is shown under a name is what that value held ("decoded only       *)
(* according to their declared type").                                     *)
DataBelongsToName ==
    \A o \in observations : \A i \in DOMAIN o.values :
        o.values[i].of \in {o.values[i].id, "redacted", "unavailable", "empty"}
=============================================================================
