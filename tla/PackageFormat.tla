--------------------------- MODULE PackageFormat ----------------------------
(***************************************************************************)
(* A .reforge package from its writer to its readers (reforge-package:     *)
(* writer.rs, reader.rs, signature.rs and the PackageSetResolver of        *)
(* content_store.rs).  PackageWriter.write validates its documents and     *)
(* publishes an archive with one rename; PackageReader.inspect accepts or  *)
(* refuses what it finds under that name; PackageSetResolver delivers an   *)
(* object later, when the files may have changed.                          *)
(*                                                                         *)
(* Object identifiers are numbers and Content gives what each one hashes.  *)
(* What an archive or store entry really holds is the identifier of that   *)
(* content, 0 for rubbish.  The name of an object entry is <<id>> for      *)
(* objects/<id>.zst and <<m, i>> for objects/<m>.chunks/<i>.zst; with      *)
(* fewer than eleven chunks the order of the names is that of the pairs.   *)
(***************************************************************************)
EXTENDS Integers, Sequences, FiniteSets, FiniteSetsExt, SequencesExt

CONSTANTS
    Content,        \* id -> [kind, size, ctype, chunks, canonical]
    Requests,       \* documents the first package may be written from
    Others,         \* documents of the second package of the set
    Chunk,          \* FILE_CHUNK_BYTES
    MaxObjects,     \* max_total_object_bytes
    MaxMetadata,    \* max_metadata_entry_bytes, for file manifests
    MaxEntries,     \* max_entries
    MaxArchive,     \* max_archive_bytes
    Trusted,        \* the signer the reader trusts
    MaxFaults       \* bound on changes to the store and to the files

VARIABLES
    req,        \* the documents of the two packages
    store,      \* the object store: id -> what its file holds
    disk,       \* the package files
    pc, cur,    \* the step of the command, and the package it works on
    read,       \* the inspected packages, in the order of the roots
    out,        \* the error code, or what the resolver delivered
    faults

pkgVars == <<req, store, disk, pc, cur, read, out, faults>>

None == 0
NoArchive == [zip |-> "absent"]
Ids == DOMAIN Content
Distinct(s) == Cardinality(Range(s)) = Len(s)

(***************************************************************************)
(* build_package_inputs (reforge-cli): the documents of a selection whose  *)
(* files are in the store.  The index is a map by object identifier, so    *)
(* the entry of the file stored last is the one that stays.                *)
(***************************************************************************)
StoredEntries(m) ==
    <<[id |-> m, bytes |-> Content[m].size, packed |-> Content[m].packed, ctype |-> "Json"]>>
    \o [i \in DOMAIN Content[m].chunks |->
          LET c == Content[m].chunks[i].id
          IN [id |-> c, bytes |-> Content[c].size, packed |-> Content[c].packed,
              ctype |-> Content[m].ctype]]

BuildIndex(files) ==
    LET all == FlattenSeq([i \in DOMAIN files |-> StoredEntries(files[i])])
        kept == {i \in DOMAIN all : \A j \in i + 1 .. Len(all) : all[j].id # all[i].id}
    IN SortSeq(SetToSeq({all[i] : i \in kept}), LAMBDA x, y : x.id < y.id)

BuildPackageInputs(files) ==
    [version |-> 1, edges |-> {}, ids |-> <<1>>,
     comps |-> <<[id |-> 1, restore |-> "Copy", prov |-> FALSE, claims |-> <<>>,
                  arts |-> [i \in DOMAIN files |->
                     [id |-> i, object |-> files[i], policy |-> "Config",
                      size |-> Content[files[i]].size, ctype |-> Content[files[i]].ctype]]]>>,
     sel |-> [comps |-> <<1>>, secrets |-> "Exclude",
              arts |-> [i \in DOMAIN files |-> [artifact |-> i, include |-> TRUE]]],
     index |-> BuildIndex(files), digest |-> Range(BuildIndex(files)), vault |-> FALSE,
     sig |-> [by |-> "nobody", covers |-> [ids |-> <<>>, digest |-> {}, index |-> {}]]]

(***************************************************************************)
(* Checks shared by the writer and the reader                              *)
(***************************************************************************)
Index(d) == Range(d.index)
Indexed(d) == {x.id : x \in Index(d)}
Entry(d, id) == CHOOSE x \in Index(d) : x.id = id
ArtifactsOf(d) == FlattenSeq([i \in DOMAIN d.comps |-> d.comps[i].arts])
ComponentIds(d) == [i \in DOMAIN d.comps |-> d.comps[i].id]
ObjectsUsed(d) == {a.object : a \in {x \in Range(ArtifactsOf(d)) : x.object # None}}

(* normalize_object_index                                                  *)
Normalized(d) == [d EXCEPT !.index = SortSeq(@, LAMBDA x, y : x.id < y.id)]
IndexUnique(d) == Distinct([i \in DOMAIN d.index |-> d.index[i].id])

VaultError(d) ==
    IF d.vault = (d.sel.secrets = "VaultExplicit") THEN "none"
    ELSE IF d.vault THEN "SecurityPolicy" ELSE "VaultRequired"

DecisionBad(d, x) ==
    LET a == CHOOSE a \in Range(ArtifactsOf(d)) : a.id = x.artifact
    IN \/ x.include /\ a.object = None /\ a.policy \notin {"Manual", "SecretReference"}
       \/ ~x.include /\ a.object # None

(* validate_package_documents                                              *)
DocumentsOK(d) ==
    LET arts == ArtifactsOf(d)
        artIds == [i \in DOMAIN arts |-> arts[i].id]
        chosen == [i \in DOMAIN d.sel.arts |-> d.sel.arts[i].artifact]
    IN /\ Distinct(ComponentIds(d)) /\ Distinct(artIds)
       /\ \A x \in d.edges : {x[1], x[2]} \subseteq Range(ComponentIds(d))
       /\ Distinct(d.ids) /\ Range(d.ids) = Range(ComponentIds(d))
       /\ Distinct(d.sel.comps) /\ Range(d.sel.comps) \subseteq Range(ComponentIds(d))
       /\ Distinct(chosen) /\ Range(chosen) \subseteq Range(artIds)
       /\ \A x \in Range(d.sel.arts) : ~DecisionBad(d, x)
       /\ IndexUnique(d)
       /\ ObjectsUsed(d) \subseteq Indexed(d)

(* derive_operations and derive_sources, in sorted order of the claims.    *)
DeriveOperations(d) == {<<c.id, c.restore>> : c \in Range(d.comps)}
DeriveSources(d) ==
    {<<c.id, Range(c.claims)>> : c \in {x \in Range(d.comps) : x.prov \/ x.claims # <<>>}}
ClaimsOK(d) == \A c \in Range(d.comps) : Distinct(c.claims)

TotalBytes(d) == FoldSeq(LAMBDA x, n : x.bytes + n, 0, d.index)

(* The first artifact of each object is the one its manifest is held       *)
(* against: later ones find the manifest already loaded.                   *)
Chunks(m) == Content[m].chunks

(* Faulty variant: the sum of the chunks is not compared.                  *)
FileManifestNoSum(d, a) ==
    LET m == a.object
        n == Len(Chunks(m))
    IN /\ Content[m].size = a.size /\ Content[m].ctype = a.ctype
       /\ \A i \in 1..n :
             LET c == Chunks(m)[i]
             IN /\ c.bytes \in 1..Chunk /\ (i # n => c.bytes = Chunk)
                /\ c.id \in Indexed(d)
                /\ Entry(d, c.id).bytes = c.bytes
                /\ Entry(d, c.id).ctype = Content[m].ctype

(* validate_file_manifest                                                  *)
FileManifestOK(d, a) ==
    LET m == a.object
        n == Len(Chunks(m))
    IN /\ Content[m].size = a.size /\ Content[m].ctype = a.ctype
       /\ \A i \in 1..n :
             LET c == Chunks(m)[i]
             IN /\ c.bytes \in 1..Chunk /\ (i # n => c.bytes = Chunk)
                /\ c.id \in Indexed(d)
                /\ Entry(d, c.id).bytes = c.bytes
                /\ Entry(d, c.id).ctype = Content[m].ctype
       /\ FoldSeq(LAMBDA x, t : x.bytes + t, 0, Chunks(m)) = Content[m].size

FirstUse(d) ==
    LET arts == ArtifactsOf(d)
    IN {i \in DOMAIN arts :
            arts[i].object # None /\ \A j \in 1..(i - 1) : arts[j].object # arts[i].object}

(* load_file_manifests / read_file_manifests, held[m] being what the store *)
(* or the archive has under the name of the manifest.  Only the writer     *)
(* limits the compressed length too.                                       *)
ManifestsError(d, held, writing) ==
    LET arts == ArtifactsOf(d)
        bad(i) == LET m == arts[i].object
                  IN IF Entry(d, m).ctype # "Json" THEN "SchemaInvalid"
                     ELSE IF \/ Entry(d, m).bytes > MaxMetadata
                             \/ writing /\ Entry(d, m).packed > MaxMetadata
                     THEN "SecurityPolicy"
                     ELSE IF held[m] # m \/ Content[m].packed # Entry(d, m).packed
                     THEN "PackageCorrupt"
                     ELSE IF Content[m].kind # "manifest" \/ ~Content[m].canonical
                             \/ ~FileManifestOK(d, arts[i])
                     THEN "SchemaInvalid" ELSE "none"
        failing == {i \in FirstUse(d) : bad(i) # "none"}
    IN IF failing = {} THEN "none" ELSE bad(Min(failing))

(* object_locations: what is reachable is what is indexed, and a manifest  *)
(* is never a chunk.                                                       *)
ChunkIds(d) == UNION {{Chunks(m)[i].id : i \in DOMAIN Chunks(m)} : m \in ObjectsUsed(d)}

LocationsOK(d) ==
    /\ ChunkIds(d) \cap ObjectsUsed(d) = {}
    /\ ChunkIds(d) \cup ObjectsUsed(d) = Indexed(d)

(* The least name of the places a chunk is listed at.                      *)
Location(d, id) ==
    LET places == UNION {{<<m, i>> : i \in {i \in DOMAIN Chunks(m) : Chunks(m)[i].id = id}} :
                         m \in ObjectsUsed(d)}
    IN IF places = {} THEN <<id>>
       ELSE CHOOSE p \in places : \A q \in places :
                p[1] < q[1] \/ (p[1] = q[1] /\ p[2] <= q[2])

Locations(d) == {Location(d, id) : id \in Indexed(d)}

(* The signature covers the manifest, and with its digest the index.       *)
SignatureCovers(d) ==
    d.sig.covers = [ids |-> d.ids, digest |-> d.digest, index |-> Index(d)]

EntryCount(d, objects) ==
    6 + objects + (IF d.vault THEN 1 ELSE 0) + (IF d.sig.by # "nobody" THEN 2 ELSE 0)

(***************************************************************************)
(* PackageWriter.prepare                                                   *)
(***************************************************************************)
StoreHolds(d, id) == store[id] = id /\ Content[id].packed = Entry(d, id).packed
                     /\ Content[id].size = Entry(d, id).bytes

(* Faulty variant: a signature is attached without being verified, and the *)
(* entries are not counted.                                                *)
PrepareErrorUncounted(d) ==
    IF ~IndexUnique(d) THEN "SchemaInvalid"
    ELSE IF d.version # 1 THEN "UnsupportedVersion"
    ELSE IF ~DocumentsOK(d) THEN "SchemaInvalid"
    ELSE IF VaultError(d) # "none" THEN VaultError(d)
    ELSE IF d.digest # Index(d) THEN "SchemaInvalid"
    ELSE IF TotalBytes(d) > MaxObjects THEN "SecurityPolicy"
    ELSE IF \E id \in Indexed(d) : ~StoreHolds(d, id) THEN "PackageCorrupt"
    ELSE IF ManifestsError(d, store, TRUE) # "none"
    THEN ManifestsError(d, store, TRUE)
    ELSE "none"

PrepareError(d) ==
    IF ~IndexUnique(d) THEN "SchemaInvalid"
    ELSE IF d.version # 1 THEN "UnsupportedVersion"
    ELSE IF ~DocumentsOK(d) THEN "SchemaInvalid"
    ELSE IF VaultError(d) # "none" THEN VaultError(d)
    ELSE IF d.digest # Index(d) THEN "SchemaInvalid"
    ELSE IF TotalBytes(d) > MaxObjects THEN "SecurityPolicy"
    ELSE IF \E id \in Indexed(d) : ~StoreHolds(d, id) THEN "PackageCorrupt"
    ELSE IF ManifestsError(d, store, TRUE) # "none"
    THEN ManifestsError(d, store, TRUE)
    ELSE IF ~LocationsOK(d) \/ ~ClaimsOK(d) THEN "SchemaInvalid"
    ELSE IF d.sig.by # "nobody" /\ ~SignatureCovers(d) THEN "PackageUntrusted"
    ELSE IF EntryCount(d, Len(d.index)) > MaxEntries THEN "SecurityPolicy"
    ELSE "none"

ArchiveBytes(d) == FoldSeq(LAMBDA x, n : x.packed + n, 1, d.index)

(* The archive: documents, derived documents and object entries.           *)
Archive(d, held) ==
    [zip |-> "sound", doc |-> d, ops |-> DeriveOperations(d), sources |-> DeriveSources(d),
     objects |-> held, envelope |-> d.sig.by # "nobody", bytes |-> ArchiveBytes(d)]

Fail(code) ==
    /\ pc' = "failed" /\ out' = [code |-> code, object |-> None, held |-> None, agreed |-> FALSE]
    /\ UNCHANGED <<req, store, disk, cur, read, faults>>

(* Faulty variant: the step always moves on to the next package.           *)
GoOn(step, root) == pc' = step /\ cur' = cur + 1
Go(step, root) == pc' = step /\ cur' = root

Prepare ==
    /\ pc = "prepare"
    /\ LET d == Normalized(req[cur])
       IN IF ~IndexUnique(req[cur]) THEN Fail("SchemaInvalid")
          ELSE IF PrepareError(d) # "none" THEN Fail(PrepareError(d))
          ELSE IF disk[cur] # NoArchive THEN Fail("TargetConflict")
          ELSE /\ req' = [req EXCEPT ![cur] = d] /\ Go("copy", cur)
               /\ UNCHANGED <<store, disk, read, out, faults>>

(* The staged archive is written: copy_compressed_object verifies every    *)
(* object once more, and the finished file is renamed into place.  The     *)
(* bytes copied are read after the verification, so what damages an object *)
(* in between is only noticed when its length changes.                     *)
Publish ==
    /\ pc = "copy"
    /\ LET d == req[cur]
           held == [p \in Locations(d) |->
                       store[CHOOSE id \in Indexed(d) : Location(d, id) = p]]
           read0 == {p \in Locations(d) : held[p] = 0}
       IN IF ArchiveBytes(d) > MaxArchive THEN Fail("SecurityPolicy")
          ELSE IF read0 # {} THEN Fail("PackageCorrupt")
          ELSE \E late \in SUBSET Locations(d) :
                /\ Cardinality(late) + faults <= MaxFaults
                /\ faults' = faults + Cardinality(late)
                /\ store' = [id \in DOMAIN store |->
                               IF id \in Indexed(d) /\ Location(d, id) \in late
                               THEN 0 ELSE store[id]]
                /\ disk' = [disk EXCEPT ![cur] =
                              Archive(d, [p \in Locations(d) |->
                                             IF p \in late THEN 0 ELSE held[p]])]
                /\ IF cur = 1 THEN Go("prepare", 2) ELSE Go("open", 1)
                /\ UNCHANGED <<req, read, out>>

(***************************************************************************)
(* PackageReader.inspect                                                   *)
(***************************************************************************)
(* preflight_central_directory, inspect_entries and validate_entry.        *)
ZipError(a) ==
    CASE a.zip = "absent" -> "PathNotFound"
      [] a.zip = "truncated" -> "PackageCorrupt"
      [] a.zip \in {"foreign entry", "colliding names", "compressed"} -> "SecurityPolicy"
      [] a.zip = "sound" -> "none"

HeldIn(a, name) == IF name \in DOMAIN a.objects THEN a.objects[name] ELSE 0 - 1

(* validate_object_entry_set                                               *)
EntrySet(a) == DOMAIN a.objects = Locations(a.doc)

(* verify_object_entry for every indexed object                            *)
ObjectsVerified(a) ==
    \A id \in Indexed(a.doc) :
        /\ HeldIn(a, Location(a.doc, id)) = id
        /\ Content[id].size = Entry(a.doc, id).bytes
        /\ Content[id].packed = Entry(a.doc, id).packed

DocumentsError(a) ==
    LET d == a.doc
    IN IF VaultError(d) # "none" THEN VaultError(d)
       ELSE IF ~IndexUnique(d) \/ Normalized(d) # d THEN "SchemaInvalid"
       ELSE IF d.version # 1 THEN "UnsupportedVersion"
       ELSE IF ~DocumentsOK(d) \/ a.ops # DeriveOperations(d) \/ ~ClaimsOK(d)
               \/ a.sources # DeriveSources(d) THEN "SchemaInvalid"
       ELSE IF d.digest # Index(d) THEN "PackageCorrupt"
       ELSE IF TotalBytes(d) > MaxObjects THEN "SecurityPolicy"
       ELSE "none"

InspectError(a) ==
    LET held == [m \in Ids |-> HeldIn(a, <<m>>)]
    IN
    IF ZipError(a) # "none" THEN ZipError(a)
    ELSE IF a.bytes > MaxArchive \/ EntryCount(a.doc, Cardinality(DOMAIN a.objects)) > MaxEntries
    THEN "SecurityPolicy"
    ELSE IF DocumentsError(a) # "none" THEN DocumentsError(a)
    ELSE IF ManifestsError(a.doc, held, FALSE) # "none"
    THEN ManifestsError(a.doc, held, FALSE)
    ELSE IF ~LocationsOK(a.doc) THEN "SchemaInvalid"
    ELSE IF ~EntrySet(a) \/ ~ObjectsVerified(a) THEN "PackageCorrupt"
    ELSE IF a.envelope # (a.doc.sig.by # "nobody") THEN "PackageCorrupt"
    ELSE "none"

TrustState(d) ==
    IF d.sig.by = "nobody" THEN "Unsigned"
    ELSE IF ~SignatureCovers(d) THEN "SignatureInvalid"
    ELSE IF d.sig.by = Trusted THEN "SignatureValidTrusted" ELSE "SignatureValidUntrusted"

Inspect ==
    /\ pc = "open"
    /\ LET a == disk[cur]
       IN IF InspectError(a) # "none" THEN Fail(InspectError(a))
          ELSE /\ read' = Append(read, [doc |-> a.doc, bytes |-> a.bytes,
                                        trust |-> TrustState(a.doc)])
               /\ IF cur = 1 THEN Go("open", 2) ELSE Go("ready", 1)
               /\ UNCHANGED <<req, store, disk, out, faults>>

(***************************************************************************)
(* apply_trust_decision                                                    *)
(***************************************************************************)
(* Faulty variant: any checked signature may be approved.                  *)
ApprovableChecked == {"Unsigned", "SignatureValidUntrusted", "SignatureValidTrusted",
                      "SignatureInvalid", "UserApproved"}
Approvable == {"Unsigned", "SignatureValidUntrusted", "SignatureValidTrusted", "UserApproved"}

Decide(r) ==
    /\ pc = "ready"
    /\ \/ read' = [read EXCEPT ![r].trust = "Rejected"]
       \/ read[r].trust \in Approvable /\ read' = [read EXCEPT ![r].trust = "UserApproved"]
    /\ UNCHANGED <<req, store, disk, pc, cur, out, faults>>

(***************************************************************************)
(* PackageSetResolver.resolve_object                                       *)
(***************************************************************************)
Candidates(id) == {r \in DOMAIN read : id \in Indexed(read[r].doc)}

(* open_inspected_object and the verified stream: what the file holds now  *)
(* against what the index said when it was inspected.                      *)
StreamError(r, id) ==
    LET a == disk[r]
        name == Location(read[r].doc, id)
    IN IF a.zip = "absent" THEN "PathNotFound"
       ELSE IF a.bytes # read[r].bytes THEN "PackageCorrupt"
       ELSE IF ZipError(a) # "none" THEN ZipError(a)
       ELSE IF HeldIn(a, name) # id THEN "PackageCorrupt"
       ELSE "none"

(* history: what the other packages of the set hold when they are compared.*)
Agreed(id) ==
    \A r \in Candidates(id) \ {Min(Candidates(id))} :
        disk[r] # NoArchive /\ HeldIn(disk[r], Location(read[r].doc, id)) = id

Compared(id) ==
    /\ pc' = "fetch" /\ out' = [out EXCEPT !.object = id, !.agreed = Agreed(id)]
    /\ UNCHANGED <<req, store, disk, cur, read, faults>>

(* Faulty variant: a damaged duplicate is skipped.                         *)
ResolveFirst(id) == pc = "ready" /\ Candidates(id) # {} /\ Compared(id)

(* The first package that lists the object is compared with all others.    *)
Resolve(id) ==
    /\ pc = "ready"
    /\ LET others == Candidates(id) \ {Min(Candidates(id))}
           differing == {StreamError(r, id) : r \in Candidates(id)} \ {"none"}
       IN IF Candidates(id) = {} THEN Fail("PackageNotFound")
          ELSE IF others # {} /\ differing # {}
          THEN Fail(IF differing = {"PackageCorrupt"} THEN "TargetConflict"
                    ELSE CHOOSE c \in differing \ {"PackageCorrupt"} : TRUE)
          ELSE Compared(id)

(* copy_inspected_object: its file is opened and checked again.            *)
CopyObject ==
    /\ pc = "fetch"
    /\ LET id == out.object
           source == Min(Candidates(id))
       IN IF StreamError(source, id) # "none" THEN Fail(StreamError(source, id))
          ELSE /\ pc' = "delivered"
               /\ out' = [out EXCEPT !.code = "ok",
                                     !.held = HeldIn(disk[source], Location(read[source].doc, id))]
               /\ UNCHANGED <<req, store, disk, cur, read, faults>>

(***************************************************************************)
(* Faults: another program damages or replaces a package file, or the      *)
(* store loses an object before the writer verifies it.                    *)
(***************************************************************************)
Damaged(a) ==
    {[a EXCEPT !.zip = z] : z \in {"truncated", "foreign entry", "colliding names", "compressed"}}
    \cup {[a EXCEPT !.objects[p] = 0] : p \in DOMAIN a.objects}
    \cup {[a EXCEPT !.objects = [p \in DOMAIN a.objects \ {q} |-> a.objects[p]]] :
             q \in DOMAIN a.objects}
    \cup {[a EXCEPT !.objects = (<<99>> :> 0) @@ @], [a EXCEPT !.bytes = @ + 1],
          [a EXCEPT !.ops = {}], [a EXCEPT !.envelope = ~@],
          [a EXCEPT !.doc.index = Reverse(@)], [a EXCEPT !.doc.digest = {}],
          [a EXCEPT !.doc.sig.by = IF @ = "nobody" THEN @ ELSE "someone"],
          [a EXCEPT !.doc.sig.covers.digest = {}]}

ChangeFile(r) ==
    /\ faults < MaxFaults /\ disk[r] # NoArchive /\ pc \notin {"failed", "delivered"}
    /\ faults' = faults + 1
    /\ disk' \in {[disk EXCEPT ![r] = a] :
                     a \in Damaged(disk[r]) \cup {NoArchive, disk[3 - r]}}
    /\ UNCHANGED <<req, store, pc, cur, read, out>>

LoseObject(id) ==
    /\ faults < MaxFaults /\ pc \in {"prepare", "copy"} /\ store[id] # 0
    /\ store' = [store EXCEPT ![id] = 0] /\ faults' = faults + 1
    /\ UNCHANGED <<req, disk, pc, cur, read, out>>

PackageInit ==
    /\ req \in {<<d, e>> : d \in Requests, e \in Others}
    /\ store = [id \in Ids |-> id]
    /\ disk = <<NoArchive, NoArchive>>
    /\ pc = "prepare" /\ cur = 1
    /\ read = <<>> /\ faults = 0
    /\ out = [code |-> "none", object |-> None, held |-> None, agreed |-> FALSE]

PackageStep ==
    \/ Prepare \/ Publish \/ Inspect \/ CopyObject
    \/ \E id \in Ids : Resolve(id)

PackageNext ==
    \/ PackageStep
    \/ \E r \in 1..2 : ChangeFile(r) \/ (r \in DOMAIN read /\ Decide(r))
    \/ \E id \in Ids : LoseObject(id)
    \/ pc \in {"failed", "delivered"} /\ UNCHANGED pkgVars

PackageSpec == PackageInit /\ [][PackageNext]_pkgVars

(***************************************************************************)
(* Properties                                                              *)
(***************************************************************************)
(* The command's state is of its type.                                     *)
PackageTypeOK ==
    /\ pc \in {"prepare", "copy", "open", "ready", "fetch", "failed", "delivered"}
    /\ cur \in 1..2 /\ faults \in 0..MaxFaults
    /\ store \in [Ids -> Ids \cup {0}]
    /\ Len(read) \in 0..2 /\ out.object \in Ids \cup {None}

(* A package the writer published and nobody touched is accepted, with the *)
(* documents it was written from.                                          *)
WrittenIsReadable ==
    faults = 0 =>
        /\ pc = "failed" /\ disk[2] # NoArchive => out.code \in {"PackageNotFound"}
        /\ \A r \in DOMAIN read : read[r].doc = req[r]

(* What inspect accepts is whole: every artifact kept by the selection has *)
(* a manifest whose chunks add up to it, each of them indexed once, and    *)
(* nothing else is indexed.                                                *)
AcceptedIsWhole ==
    \A r \in DOMAIN read :
        LET d == read[r].doc
        IN /\ \A a \in Range(ArtifactsOf(d)) : a.object # None =>
                 /\ a.object \in Indexed(d) /\ Content[a.object].kind = "manifest"
                 /\ FoldSeq(LAMBDA x, t : Content[x.id].size + t, 0, Chunks(a.object))
                        = Content[a.object].size
                 /\ \A i \in DOMAIN Chunks(a.object) : Chunks(a.object)[i].id \in Indexed(d)
           /\ \A x \in Index(d) : \E a \in Range(ArtifactsOf(d)) :
                 a.object # None /\ (\/ x.id = a.object
                                     \/ \E i \in DOMAIN Chunks(a.object) :
                                            Chunks(a.object)[i].id = x.id)
           /\ \A x \in Range(d.sel.arts) : ~x.include =>
                 \A a \in Range(ArtifactsOf(d)) : a.id = x.artifact => a.object = None

(* An object is delivered only with the content its identifier names, and  *)
(* only if every other package of the set that lists it held the same when *)
(* they were compared, whatever happens to the files after they were       *)
(* inspected and between the comparison and the copy.                      *)
DeliveredIsVerified == pc = "delivered" => out.held = out.object /\ out.agreed

(* A package whose signature does not cover its documents is never         *)
(* approved, in whatever order the user decides.                           *)
InvalidNeverApproved ==
    \A r \in DOMAIN read :
        read[r].trust = "UserApproved" =>
            read[r].doc.sig.by = "nobody" \/ SignatureCovers(read[r].doc)

(***************************************************************************)
(* Said by the code or its documents, and not kept (see the README)        *)
(***************************************************************************)
(* Identical bytes have one content type in the store: a selection whose   *)
(* files were all stored is never refused by the writer's schema checks.   *)
StoredIsPackaged ==
    faults = 0 /\ pc = "failed" => out.code # "SchemaInvalid"
=============================================================================
