--------------------------- MODULE ArtifactStaging --------------------------
(***************************************************************************)
(* handlers/mod.rs of reforge-restore: an operation names a package        *)
(* object, which is either the payload itself or a manifest of chunks.     *)
(* The reference is validated against the package index, the payload is    *)
(* copied object by object with every byte hashed on its way, and for the  *)
(* subsystem handlers it is staged in a temporary file whose name other    *)
(* processes compete for.                                                  *)
(*                                                                         *)
(* Objects are content addressed: an id is the sequence of bytes with that *)
(* hash, so the digest of some bytes equals an id when the bytes do.       *)
(***************************************************************************)
EXTENDS Naturals, Sequences, FiniteSets, SequencesExt

CONSTANTS
    Procs,         \* restore processes that stage at the same time
    Bytes,
    Packages,      \* what the operation may refer to, see Entry and Validate
    ChunkBytes, MaxBytes,   \* FILE_CHUNK_BYTES, MAX_SUBSYSTEM_OBJECT_BYTES
    Tries,         \* names one call tries
    Volumes, TempVolume, FreeBytes,    \* free space the target scan recorded
    MaxNames, MaxStaged, MaxFailures, MaxCrashes   \* names used, archives per process, failed or cancelled copies, kills

VARIABLES
    pkg,           \* [object, index, manifests, source]
    files,         \* the temporary directory: name -> [bytes, owner, live]
    proc,          \* [pc, next, tries, path, todo, given, hashed, done]
    free, failures, crashes

stVars == <<pkg, files, proc, free, failures, crashes>>

Idle == [pc |-> "idle", next |-> 1, tries |-> 0, path |-> 0, todo |-> <<>>,
         given |-> <<>>, hashed |-> <<>>, done |-> 0]

Index == [id : Seq(Bytes), bytes : Nat, type : STRING]
Manifest == [size : Nat, type : STRING, canonical : BOOLEAN, chunks : Seq([id : Seq(Bytes), bytes : Nat])]
Delivery == [bytes : Seq(Bytes), ok : BOOLEAN, same : BOOLEAN]

(* A package has lengths and identities; its source delivers something for *)
(* every object of the index, or says that it cannot.                      *)
StAssumption ==
    /\ ChunkBytes \in Nat /\ MaxBytes \in Nat
    /\ \A k \in Packages :
          /\ k.object \in Seq(Bytes) /\ k.index \in Seq(Index)
          /\ \A o \in DOMAIN k.manifests : k.manifests[o] \in Manifest
          /\ \A i \in DOMAIN k.index : k.source[k.index[i].id] \in Delivery

StInit ==
    /\ pkg \in Packages /\ free \in [Volumes -> FreeBytes]
    /\ files = <<>> /\ proc = [p \in Procs |-> Idle] /\ failures = 0 /\ crashes = 0

(***************************************************************************)
(* The reference and the index                                             *)
(***************************************************************************)
(* indexed_entry: exactly one entry, or an error.                          *)
Indexed(k, id) == {i \in DOMAIN k.index : k.index[i].id = id}
IsIndexed(k, id) == Cardinality(Indexed(k, id)) = 1
Entry(k, id) == k.index[CHOOSE i \in Indexed(k, id) : TRUE]

IsManifest(k) == k.object \in DOMAIN k.manifests
Chunks(k) == k.manifests[k.object].chunks

(* One pass of the loop of validate_artifact.                              *)
ChunkFits(k, i) ==
    LET m == k.manifests[k.object]
        c == m.chunks[i]
    IN /\ c.id # k.object /\ c.id \notin DOMAIN k.manifests
       /\ c.bytes \in 1..ChunkBytes
       /\ i # Len(m.chunks) => c.bytes = ChunkBytes
       /\ IsIndexed(k, c.id)
       /\ Entry(k, c.id).bytes = c.bytes /\ Entry(k, c.id).type = m.type

(* Where a chunk ends, counted from the start of the payload.              *)
Ends(chunks) ==
    LET end[i \in 0..Len(chunks)] == IF i = 0 THEN 0 ELSE end[i - 1] + chunks[i].bytes
    IN end

(* validate_artifact: a direct object, or a manifest that agrees with the  *)
(* index in number, lengths and types of its chunks, whose own bytes are   *)
(* those of its identity.                                                  *)
Validate(k, max) ==
    /\ IsIndexed(k, k.object)
    /\ IF ~IsManifest(k) THEN Entry(k, k.object).bytes <= max
       ELSE LET m == k.manifests[k.object]
            IN /\ m.size <= max
               /\ Len(m.chunks) = (m.size + ChunkBytes - 1) \div ChunkBytes
               /\ Entry(k, k.object).type = "json"
               /\ \A i \in DOMAIN m.chunks : ChunkFits(k, i)
               /\ Ends(m.chunks)[Len(m.chunks)] = m.size /\ m.canonical

Size(k) == IF IsManifest(k) THEN k.manifests[k.object].size ELSE Entry(k, k.object).bytes
Type(k) == IF IsManifest(k) THEN k.manifests[k.object].type ELSE Entry(k, k.object).type

(* The objects whose bytes are copied one after the other.                 *)
Parts(k) == IF IsManifest(k) THEN [i \in DOMAIN Chunks(k) |-> Chunks(k)[i].id] ELSE <<k.object>>

(* Faulty variant: bytes after the last chunk are not looked at.           *)
MatchesPrefix(k, bytes) == IsPrefix(FlattenSeq(Parts(k)), bytes)

(* matches_bytes: the length, and piece by piece the identity.             *)
MatchesBytes(k, bytes) ==
    /\ Len(bytes) = Size(k)
    /\ IF ~IsManifest(k) THEN bytes = k.object
       ELSE LET end == Ends(Chunks(k))
            IN /\ \A i \in DOMAIN Chunks(k) :
                     /\ end[i] <= Len(bytes)
                     /\ SubSeq(bytes, end[i - 1] + 1, end[i]) = Chunks(k)[i].id
               /\ end[Len(Chunks(k))] = Len(bytes)

(***************************************************************************)
(* Staging                                                                 *)
(***************************************************************************)
Is(p, step) == proc[p].pc = step
Goes(p, r) == proc' = [proc EXCEPT ![p] = r]
At(p, step) == [proc[p] EXCEPT !.pc = step]
Cleared(p, step) ==
    [pc |-> step, next |-> proc[p].next, tries |-> proc[p].tries, path |-> 0,
     todo |-> <<>>, given |-> <<>>, hashed |-> <<>>, done |-> proc[p].done]
Copying(p, name, next) ==
    [pc |-> "copy", next |-> next, tries |-> proc[p].tries + 1, path |-> name,
     todo |-> Parts(pkg), given |-> <<>>, hashed |-> <<>>, done |-> proc[p].done]
Without(name) == [n \in DOMAIN files \ {name} |-> files[n]]
With(p, name) ==
    [n \in DOMAIN files \cup {name} |->
        IF n = name THEN [bytes |-> <<>>, owner |-> p, live |-> TRUE] ELSE files[n]]

(* recommended_free_bytes: payload, copy and reserve; here twice the size. *)
Recommended(size) == 2 * size

(* subsystem_capacity_waiting looks at the volume with the most room.      *)
Capacity(k) == \E v \in Volumes : free[v] >= Recommended(Size(k))

(* stage_subsystem_artifact up to the temporary file.                      *)
Stage(p) ==
    /\ proc[p].pc \in {"idle", "error", "cancelled", "waiting"} /\ proc[p].done < MaxStaged
    /\ proc[p].next <= MaxNames
    /\ IF ~Validate(pkg, MaxBytes) THEN Goes(p, At(p, "error"))
       ELSE IF ~Capacity(pkg) THEN Goes(p, At(p, "waiting"))
       ELSE IF Type(pkg) # "archive" \/ Size(pkg) = 0 THEN Goes(p, At(p, "error"))
       ELSE Goes(p, [At(p, "create") EXCEPT !.tries = 0])
    /\ UNCHANGED <<pkg, files, free, failures, crashes>>

(* Faulty variant: every call starts from the first name.                  *)
CreateTempAfresh(p) ==
    /\ Is(p, "create")
    /\ IF proc[p].tries = Tries THEN Goes(p, At(p, "error")) /\ UNCHANGED files
       ELSE LET name == proc[p].tries + 1
            IN IF name \in DOMAIN files
               THEN Goes(p, [proc[p] EXCEPT !.tries = @ + 1]) /\ UNCHANGED files
               ELSE files' = With(p, name) /\ Goes(p, Copying(p, name, proc[p].next))
    /\ UNCHANGED <<pkg, free, failures, crashes>>

(* create_subsystem_temp_file: the counter of the process gives the names, *)
(* create_new refuses one that exists.                                     *)
CreateTemp(p) ==
    /\ Is(p, "create")
    /\ IF proc[p].tries = Tries THEN Goes(p, At(p, "error")) /\ UNCHANGED files
       ELSE LET name == proc[p].next
            IN IF name \in DOMAIN files
               THEN Goes(p, [proc[p] EXCEPT !.next = name + 1, !.tries = @ + 1]) /\ UNCHANGED files
               ELSE files' = With(p, name) /\ Goes(p, Copying(p, name, name + 1))
    /\ UNCHANGED <<pkg, free, failures, crashes>>

(* Every way out of the copy removes the file.                             *)
GiveUp(p, result) ==
    /\ files' = Without(proc[p].path) /\ Goes(p, Cleared(p, result))
    /\ UNCHANGED <<pkg, free, crashes>>

Another == failures < MaxFailures /\ failures' = failures + 1

Source(p) == pkg.source[Head(proc[p].todo)]

(* VerifyingObjectWriter::write, HashingFile::write: one byte of the       *)
(* object, unless it is cancelled or grows past its indexed length.        *)
WriteByte(p) ==
    /\ Is(p, "copy") /\ proc[p].todo # <<>> /\ Len(proc[p].given) < Len(Source(p).bytes)
    /\ LET byte == Source(p).bytes[Len(proc[p].given) + 1]
       IN IF Len(proc[p].given) + 1 > Entry(pkg, Head(proc[p].todo)).bytes
             \/ Len(proc[p].hashed) + 1 > MaxBytes
          THEN GiveUp(p, "error") /\ UNCHANGED failures
          ELSE /\ files' = [files EXCEPT ![proc[p].path].bytes = Append(@, byte)]
               /\ Goes(p, [proc[p] EXCEPT !.given = Append(@, byte), !.hashed = Append(@, byte)])
               /\ UNCHANGED <<pkg, free, failures, crashes>>

(* Faulty variant: lengths are compared, digests are not.                  *)
ObjectVerifiedByLength(p) ==
    Source(p).ok /\ Source(p).same /\ Len(proc[p].given) = Entry(pkg, Head(proc[p].todo)).bytes

(* copy_verified_indexed_object: what the source returned, the number of   *)
(* bytes and their digest are those of the index.                          *)
ObjectVerified(p) ==
    /\ Source(p).ok /\ Source(p).same
    /\ Len(proc[p].given) = Entry(pkg, Head(proc[p].todo)).bytes
    /\ proc[p].given = Head(proc[p].todo)

FinishObject(p) ==
    /\ Is(p, "copy") /\ proc[p].todo # <<>> /\ Len(proc[p].given) = Len(Source(p).bytes)
    /\ IF ObjectVerified(p)
       THEN /\ Goes(p, [proc[p] EXCEPT !.todo = Tail(@), !.given = <<>>])
            /\ UNCHANGED <<pkg, files, free, failures, crashes>>
       ELSE GiveUp(p, "error") /\ UNCHANGED failures

(* Between objects and bytes the copy looks at the token; a write fails.   *)
CancelCopy(p) == Is(p, "copy") /\ proc[p].todo # <<>> /\ Another /\ GiveUp(p, "cancelled")

(* Faulty variant: a cancelled copy leaves its file.                       *)
FailCopyLeaving(p) ==
    /\ Is(p, "copy") /\ Another /\ Goes(p, Cleared(p, "error"))
    /\ UNCHANGED <<pkg, files, free, crashes>>

FailCopy(p) == Is(p, "copy") /\ Another /\ GiveUp(p, "error")

(* The end of copy_validated_artifact, sync_all and the final comparison.  *)
FinishStage(p) ==
    /\ Is(p, "copy") /\ proc[p].todo = <<>>
    /\ IF Len(proc[p].hashed) = Size(pkg)
       THEN Goes(p, At(p, "staged")) /\ UNCHANGED <<pkg, files, free, failures, crashes>>
       ELSE GiveUp(p, "error") /\ UNCHANGED failures

(* The handler is done with the archive: StagedSubsystemObject::drop.      *)
DropStaged(p) ==
    /\ Is(p, "staged") /\ files' = Without(proc[p].path)
    /\ Goes(p, [Cleared(p, "idle") EXCEPT !.done = @ + 1])
    /\ UNCHANGED <<pkg, free, failures, crashes>>

(* A killed process leaves its file; the next one counts from one.         *)
Crash(p) ==
    /\ crashes < MaxCrashes /\ crashes' = crashes + 1 /\ proc[p].pc \in {"create", "copy", "staged"}
    /\ files' = [n \in DOMAIN files |->
                    IF n = proc[p].path THEN [files[n] EXCEPT !.live = FALSE] ELSE files[n]]
    /\ Goes(p, [Idle EXCEPT !.done = proc[p].done])
    /\ UNCHANGED <<pkg, free, failures>>

StStep(p) ==
    Stage(p) \/ CreateTemp(p) \/ WriteByte(p) \/ FinishObject(p) \/ FinishStage(p) \/ DropStaged(p)
ProcNext(p) == StStep(p) \/ CancelCopy(p) \/ FailCopy(p) \/ Crash(p)

StNext == \E p \in Procs : ProcNext(p)

StSpec == StInit /\ [][StNext]_stVars

(***************************************************************************)
(* Properties                                                              *)
(***************************************************************************)
(* While a handler uses a staged file, the file is there and holds exactly *)
(* the bytes the operation's object stands for, whatever the source        *)
(* delivered and other processes did (stage_subsystem_artifact).           *)
StagedIsWhole ==
    \A p \in Procs : Is(p, "staged") =>
        /\ proc[p].path \in DOMAIN files
        /\ files[proc[p].path].bytes = FlattenSeq(Parts(pkg))
        /\ Len(files[proc[p].path].bytes) \in 1..MaxBytes

(* A temporary file belongs to a process that is using it, or to one that  *)
(* was killed: "removed when the handler finishes, including error paths". *)
FilesAreInUse ==
    \A n \in DOMAIN files : files[n].live =>
        proc[files[n].owner].path = n /\ proc[files[n].owner].pc \in {"copy", "staged"}

(* matches_bytes, with which handlers decide that a target already has the *)
(* file, accepts exactly the bytes a copy of the artifact would produce:   *)
(* its parts, each as long as the index says, one after the other.         *)
MatchesIsEquality ==
    Validate(pkg, MaxBytes) =>
        \A bytes \in BoundedSeq(Bytes, MaxBytes) :
            MatchesBytes(pkg, bytes) <=>
                /\ bytes = FlattenSeq(Parts(pkg))
                /\ \A i \in DOMAIN Parts(pkg) : Len(Parts(pkg)[i]) = Entry(pkg, Parts(pkg)[i]).bytes

(***************************************************************************)
(* Said by the code or its documents, and not kept (see the README)        *)
(***************************************************************************)
(* The archive fits on the volume it is staged on once the capacity check  *)
(* let it through (subsystem_capacity_waiting).                            *)
StagingFits ==
    \A p \in Procs : Is(p, "copy") => free[TempVolume] >= Size(pkg)
=============================================================================
