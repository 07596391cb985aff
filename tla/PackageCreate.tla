---------------------------- MODULE PackageCreate ---------------------------
(***************************************************************************)
(* Creating a package (reforge-cli, main.rs): the review of a selection,   *)
(* the screening of its files, their ingestion into the object store and   *)
(* the publication of the package file.  Source files may change, the user *)
(* may cancel and another program may create the output between any two    *)
(* steps.                                                                  *)
(*                                                                         *)
(* A document is the set of its leaves: the path of keys to a value, and   *)
(* whether redaction leaves the value as it is.  A key may be sensitive,   *)
(* lead to a normalised secret marker, or itself be a text that redaction  *)
(* changes.                                                                *)
(***************************************************************************)
EXTENDS Naturals, Sequences, FiniteSets, FiniteSetsExt, Functions

CONSTANTS
    Inventories,    \* component -> [sensitive, secret, unsafeShape, needs, ext, arts]
    Artifacts,      \* artifact -> [policy, type, size]
    Contents,       \* contents the source files may have
    StartContents,  \* those they have at first
    Selections,     \* [components, excluded, vault, maxBytes]
    Sensitive,      \* sensitive keys
    Markers,        \* keys of normalised secret markers
    Unstable,       \* keys that look like a secret or a path
    MaxDepth, MaxScan, Margin,
    Spaces,         \* free space of the two volumes: [state, output, same]
    MaxChanges      \* bound on outside events

VARIABLES
    inv, sel, space,
    file,       \* artifact -> content of its source file
    at,         \* where create_package_with_cancel is
    shown,      \* what the review screen listed: [arts, findings] and whether it was seen
    chosen,     \* artifacts included by the review of the creation
    comps,      \* components of the package
    todo,       \* artifacts still to ingest
    stored,     \* artifact -> what went into the object store
    output,     \* "none", "foreign" or "package"
    published,  \* the artifacts of the published package with their contents
    temp, stage,\* leftover files
    cancel, result, changes

createVars == <<inv, sel, space, file, at, shown, chosen, comps, todo, stored, output,
                published, temp, stage, cancel, result, changes>>

Nothing == [kind |-> "none", leaves |-> {}, comment |-> FALSE, size |-> 0]
NoReview == [seen |-> FALSE, arts |-> {}]

CreateInit ==
    /\ inv \in Inventories /\ sel \in Selections /\ space \in Spaces
    /\ file \in [DOMAIN Artifacts -> StartContents]
    /\ at = "idle" /\ shown = NoReview /\ chosen = {} /\ comps = {} /\ todo = {}
    /\ stored = [a \in DOMAIN Artifacts |-> Nothing]
    /\ output = "none" /\ published = {} /\ temp = FALSE /\ stage = FALSE
    /\ cancel = FALSE /\ result = "none" /\ changes = 0

(***************************************************************************)
(* Screening                                                               *)
(***************************************************************************)
Prefixes(path) == {SubSeq(path, 1, n) : n \in 0..Len(path)}

(* collect_unsafe_value_paths stops at the first node of a branch that is  *)
(* too deep, sensitive, a marker, or a value that redaction would change.  *)
Unsafe(leaf, p) ==
    \/ Len(p) > MaxDepth
    \/ p # <<>> /\ p[Len(p)] \in Sensitive \cup Markers
    \/ p = leaf.path /\ ~leaf.stable

FirstUnsafe(leaf) ==
    LET bad == {p \in Prefixes(leaf.path) : Unsafe(leaf, p)}
    IN {p \in bad : \A q \in bad : Len(p) <= Len(q)}

UnsafeValuePaths(leaves) == UNION {FirstUnsafe(l) : l \in leaves}

(* filtered_value: a blocked node goes with everything below it.           *)
FilteredValue(leaves, blocked) == {l \in leaves : Prefixes(l.path) \cap blocked = {}}

(* redact_text on the whole file: comments, values and keys.               *)
TextStable(c) ==
    /\ ~c.comment
    /\ \A l \in c.leaves : l.stable /\ Range(l.path) \cap (Sensitive \cup Unstable) = {}

(* serialize_config_document: the fields that are left, without comments;  *)
(* the new size has nothing to do with that of the file.                   *)
Rewritten(leaves) ==
    [kind |-> "document", leaves |-> leaves, comment |-> FALSE, size |-> Cardinality(leaves)]

Unusable == [bytes |-> Nothing, findings |-> {<<>>}]
Screened(type) == type # "binary"

(* scan_secret_like_artifact: the file as it is when it is clean, its safe *)
(* fields written out again when it is not, or nothing.                    *)
ScanArtifact(a, ext, c) ==
    IF c.size > MaxScan \/ c.kind = "bytes" THEN Unusable
    ELSE IF Artifacts[a].type = "text"
    THEN IF TextStable(c) THEN [bytes |-> c, findings |-> {}] ELSE Unusable
    ELSE IF c.kind # "document" THEN Unusable
    ELSE LET blocked == UnsafeValuePaths(c.leaves)
             findings == blocked
                 \cup (IF Artifacts[a].policy = "config" THEN UnsafeValuePaths(ext) ELSE {})
                 \cup (IF TextStable(c) THEN {} ELSE {<<>>})
         IN [findings |-> findings,
             bytes |-> IF findings = {} THEN c
                       ELSE IF <<>> \in blocked THEN Nothing
                       ELSE Rewritten(FilteredValue(c.leaves, blocked))]

(* What a screened file of a package may hold.                             *)
Safe(type, c) ==
    /\ c.kind # "bytes"
    /\ IF type = "text" THEN TextStable(c) ELSE ~c.comment /\ UnsafeValuePaths(c.leaves) = {}

(***************************************************************************)
(* review_selection                                                        *)
(***************************************************************************)
Auto == UNION {inv[c].needs : c \in sel.components} \ sel.components
Selected == sel.components \cup Auto
ArtsOf(cs) == UNION {inv[c].arts : c \in cs}
Owner(a) == CHOOSE c \in DOMAIN inv : a \in inv[c].arts

(* A component the review refuses outright.                                *)
ReviewError ==
    IF \E c \in Selected : inv[c].sensitive \/ inv[c].secret THEN "VaultRequired"
    ELSE IF \E a \in ArtsOf(Selected) \ sel.excluded : Artifacts[a].policy = "secret"
    THEN "VaultRequired"
    ELSE IF \E c \in Auto : inv[c].unsafeShape \/ UnsafeValuePaths(inv[c].ext) # {}
    THEN "SecurityPolicy"
    ELSE IF \E a \in ArtsOf(Auto) \ sel.excluded :
              \/ ~Screened(Artifacts[a].type)
              \/ ScanArtifact(a, inv[Owner(a)].ext, file[a]).findings # {}
    THEN "SecurityPolicy" ELSE "none"

(* An artifact that cannot be made safe is taken out of the selection.     *)
Reviewed ==
    {a \in ArtsOf(Selected) \ sel.excluded :
        Screened(Artifacts[a].type) =>
            ScanArtifact(a, inv[Owner(a)].ext, file[a]).bytes # Nothing}

(* The review screen: the user sees what would be packaged.                *)
ReviewSelection ==
    /\ at = "idle" /\ ~shown.seen /\ ReviewError = "none"
    /\ shown' = [seen |-> TRUE, arts |-> Reviewed]
    /\ UNCHANGED <<inv, sel, space, file, at, chosen, comps, todo, stored, output, published,
                   temp, stage, cancel, result, changes>>

(***************************************************************************)
(* create_package_with_cancel                                              *)
(***************************************************************************)
Stop(code) ==
    /\ at' = "done" /\ result' = code /\ temp' = FALSE /\ stage' = FALSE
    /\ UNCHANGED <<inv, sel, space, file, shown, chosen, comps, todo, stored, output,
                   published, cancel, changes>>

(* The bytes of some artifacts, of which table says the sizes.             *)
BytesOf(table, as) == MapThenSumSet(LAMBDA a : table[a].size, as)
DeclaredBytes == BytesOf(Artifacts, ArtsOf(Selected) \ sel.excluded)

(* prepare_package_output, ensure_package_storage_available                *)
StorageError ==
    IF output # "none" THEN "TargetConflict"
    ELSE IF space.same
    THEN IF space.output < 2 * (DeclaredBytes + Margin) THEN "InsufficientDisk" ELSE "none"
    ELSE IF space.state < DeclaredBytes + Margin \/ space.output < DeclaredBytes + Margin
    THEN "InsufficientDisk" ELSE "none"

Begin ==
    /\ at = "idle"
    /\ IF cancel THEN Stop("Cancelled")
       ELSE IF sel.vault THEN Stop("VaultRequired")
       ELSE IF StorageError # "none" THEN Stop(StorageError)
       ELSE /\ at' = "review"
            /\ UNCHANGED <<inv, sel, space, file, shown, chosen, comps, todo, stored, output,
                           published, temp, stage, cancel, result, changes>>

(* build_package_inputs reviews again and keeps the artifacts that remain. *)
ReviewAgain ==
    /\ at = "review"
    /\ IF ReviewError # "none" THEN Stop(ReviewError)
       ELSE IF cancel THEN Stop("Cancelled")
       ELSE /\ chosen' = Reviewed /\ todo' = Reviewed /\ comps' = Selected
            /\ at' = "ingest"
            /\ UNCHANGED <<inv, sel, space, file, shown, stored, output, published, temp,
                           stage, cancel, result, changes>>

(* Faulty variant: the review already looked at the file.                  *)
IngestScreenedTrusting(a) ==
    /\ at = "ingest" /\ a \in todo /\ Screened(Artifacts[a].type)
    /\ IF cancel THEN Stop("Cancelled")
       ELSE /\ stored' = [stored EXCEPT ![a] = file[a]]
            /\ todo' = todo \ {a}
            /\ UNCHANGED <<inv, sel, space, file, at, shown, chosen, comps, output, published,
                           temp, stage, cancel, result, changes>>

(* A text or configuration file is read and screened once more.            *)
IngestScreened(a) ==
    /\ at = "ingest" /\ a \in todo /\ Screened(Artifacts[a].type) /\ ~temp
    /\ LET s == ScanArtifact(a, inv[Owner(a)].ext, file[a])
       IN IF s.bytes = Nothing THEN Stop("SecurityPolicy")
          ELSE IF cancel THEN Stop("Cancelled")
          ELSE /\ stored' = [stored EXCEPT ![a] = s.bytes]
               /\ todo' = todo \ {a}
               /\ UNCHANGED <<inv, sel, space, file, at, shown, chosen, comps, output,
                              published, temp, stage, cancel, result, changes>>

(* store_bounded_artifact: a copy through a temporary file, bounded by the *)
(* size that was declared.                                                 *)
OpenBounded(a) ==
    /\ at = "ingest" /\ a \in todo /\ ~Screened(Artifacts[a].type) /\ ~temp
    /\ IF file[a].size > Artifacts[a].size THEN Stop("SecurityPolicy")
       ELSE /\ temp' = TRUE /\ stored' = [stored EXCEPT ![a] = file[a]]
            /\ UNCHANGED <<inv, sel, space, file, at, shown, chosen, comps, todo, output,
                           published, stage, cancel, result, changes>>

StoreBounded(a) ==
    /\ at = "ingest" /\ a \in todo /\ temp /\ ~Screened(Artifacts[a].type)
    /\ stored[a] # Nothing
    /\ IF cancel THEN Stop("Cancelled")
       ELSE /\ temp' = FALSE /\ todo' = todo \ {a}
            /\ UNCHANGED <<inv, sel, space, file, at, shown, chosen, comps, stored, output,
                           published, stage, cancel, result, changes>>

ActualBytes == BytesOf(stored, chosen)

(* Faulty variant: the declared sizes are held against the limit.          *)
SealDeclared ==
    /\ at = "ingest" /\ todo = {}
    /\ IF sel.maxBytes < DeclaredBytes THEN Stop("SecurityPolicy")
       ELSE IF cancel THEN Stop("Cancelled")
       ELSE IF space.output < ActualBytes + Margin THEN Stop("InsufficientDisk")
       ELSE /\ at' = "write"
            /\ UNCHANGED <<inv, sel, space, file, shown, chosen, comps, todo, stored, output,
                           published, temp, stage, cancel, result, changes>>

(* The byte limit and the space for the output, from what was stored.      *)
Seal ==
    /\ at = "ingest" /\ todo = {}
    /\ IF ~(ActualBytes <= sel.maxBytes) THEN Stop("SecurityPolicy")
       ELSE IF cancel THEN Stop("Cancelled")
       ELSE IF space.output < ActualBytes + Margin THEN Stop("InsufficientDisk")
       ELSE /\ at' = "write"
            /\ UNCHANGED <<inv, sel, space, file, shown, chosen, comps, todo, stored, output,
                           published, temp, stage, cancel, result, changes>>

(* write_package_with_cancel: a whole package beside the destination, then *)
(* a last look at the cancellation, then the publication under its name.   *)
WriteStaged ==
    /\ at = "write"
    /\ IF cancel THEN Stop("Cancelled")
       ELSE /\ at' = "publish" /\ stage' = TRUE
            /\ UNCHANGED <<inv, sel, space, file, shown, chosen, comps, todo, stored, output,
                           published, temp, cancel, result, changes>>

WriteFails == at = "write" /\ Stop("Io")

(* Faulty variant: the package is moved over whatever is there.            *)
PublishOver ==
    /\ at = "publish"
    /\ IF cancel THEN Stop("Cancelled")
       ELSE /\ output' = "package" /\ published' = {<<a, stored[a]>> : a \in chosen}
            /\ at' = "done" /\ result' = "ok" /\ stage' = FALSE
            /\ UNCHANGED <<inv, sel, space, file, shown, chosen, comps, todo, stored, temp,
                           cancel, changes>>

(* Faulty variant: the staged file stays when the destination is taken.    *)
PublishLeaves ==
    /\ at = "publish"
    /\ IF cancel \/ output # "none"
       THEN /\ at' = "done" /\ result' = "TargetConflict"
            /\ UNCHANGED <<inv, sel, space, file, shown, chosen, comps, todo, stored, output,
                           published, temp, stage, cancel, changes>>
       ELSE /\ output' = "package" /\ published' = {<<a, stored[a]>> : a \in chosen}
            /\ at' = "done" /\ result' = "ok" /\ stage' = FALSE
            /\ UNCHANGED <<inv, sel, space, file, shown, chosen, comps, todo, stored, temp,
                           cancel, changes>>

Publish ==
    /\ at = "publish"
    /\ IF cancel THEN Stop("Cancelled")
       ELSE IF output # "none" THEN Stop("TargetConflict")
       ELSE /\ output' = "package" /\ published' = {<<a, stored[a]>> : a \in chosen}
            /\ at' = "done" /\ result' = "ok" /\ stage' = FALSE
            /\ UNCHANGED <<inv, sel, space, file, shown, chosen, comps, todo, stored, temp,
                           cancel, changes>>

(***************************************************************************)
(* Outside events                                                          *)
(***************************************************************************)
Edit(a, c) ==
    /\ at # "done" /\ changes < MaxChanges /\ c # file[a]
    /\ file' = [file EXCEPT ![a] = c] /\ changes' = changes + 1
    /\ UNCHANGED <<inv, sel, space, at, shown, chosen, comps, todo, stored, output, published,
                   temp, stage, cancel, result>>

Foreign ==
    /\ at # "done" /\ changes < MaxChanges /\ output = "none"
    /\ output' = "foreign" /\ changes' = changes + 1
    /\ UNCHANGED <<inv, sel, space, file, at, shown, chosen, comps, todo, stored, published,
                   temp, stage, cancel, result>>

Cancel ==
    /\ at # "done" /\ ~cancel /\ cancel' = TRUE
    /\ UNCHANGED <<inv, sel, space, file, at, shown, chosen, comps, todo, stored, output,
                   published, temp, stage, result, changes>>

Done == at = "done" /\ UNCHANGED createVars

CreateNext ==
    \/ ReviewSelection \/ Begin \/ ReviewAgain
    \/ \E a \in DOMAIN Artifacts : IngestScreened(a) \/ OpenBounded(a) \/ StoreBounded(a)
    \/ Seal \/ WriteStaged \/ WriteFails \/ Publish
    \/ \E a \in DOMAIN Artifacts, c \in Contents : Edit(a, c)
    \/ Foreign \/ Cancel \/ Done

CreateSpec == CreateInit /\ [][CreateNext]_createVars

(***************************************************************************)
(* Properties                                                              *)
(***************************************************************************)
(* A text file of a package holds nothing that redaction would change; a   *)
(* configuration file holds no value, sensitive field, secret marker or    *)
(* comment of that kind, even when it was edited after the review.  Object *)
(* keys that redaction would change stay: unsafe_value_paths never looks   *)
(* at them.                                                                *)
NothingUnsafePackaged ==
    \A x \in published : Screened(Artifacts[x[1]].type) => Safe(Artifacts[x[1]].type, x[2])

(* The byte limit of the selection holds for what is really in the         *)
(* package, not for what the inventory announced.                          *)
WithinTheLimit ==
    output = "package" => BytesOf(stored, {x[1] : x \in published}) <= sel.maxBytes

(* A file that another program put at the destination is left alone, and a *)
(* package appears there only as the result of a creation that succeeded   *)
(* and was not cancelled before.                                           *)
OutputIsOurs ==
    /\ output = "foreign" => output' = "foreign"
    /\ output' = "package" /\ output # "package" => ~cancel /\ result' = "ok"

(* Whatever ends the creation, no temporary file is left.                  *)
NoTemporaryFiles == at = "done" => ~temp /\ ~stage

(***************************************************************************)
(* Said by the code or its documents, and not kept (see the README)        *)
(***************************************************************************)
(* main.rs: "Rewriting the safe tree drops any secret-like comment or      *)
(* header bytes": nothing is left that redaction would change, keys        *)
(* included.                                                               *)
KeysAreScreened == \A x \in published : Screened(Artifacts[x[1]].type) => TextStable(x[2])

(* README.md: "The review screen remains the final checkpoint before       *)
(* package creation": the package has the artifacts that it listed.        *)
ReviewIsFinal == output = "package" /\ shown.seen => {x[1] : x \in published} = shown.arts
=============================================================================
