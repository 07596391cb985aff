---------------------------- MODULE PackageStore ----------------------------
(***************************************************************************)
(* The filesystem-backed object store of reforge-package                   *)
(* (content_store.rs): processes chunk files and publish every chunk, and  *)
(* the manifest that lists them, as an object named by its content.        *)
(* Several processes share the directory, and any of them may be killed    *)
(* between two system calls; what it left in the directory is met again by *)
(* a later process, which may have been given the same process identifier  *)
(* and which starts its counter of temporary names anew.                   *)
(*                                                                         *)
(* A byte is a number.  The identifier of a content is the content itself  *)
(* (BLAKE3 does not collide), and compression is left out: an object file  *)
(* holds a content, a prefix of one while it is written, or rubbish.  A    *)
(* manifest is determined by the bytes of its file.                        *)
(***************************************************************************)
EXTENDS Naturals, Sequences, Functions
LOCAL INSTANCE TLC

CONSTANTS
    Procs,           \* processes that store a file
    Pids,            \* process identifiers the system hands out
    Files,           \* contents (sequences of bytes) that may be stored
    Chunk,           \* FILE_CHUNK_BYTES
    MaxFile,         \* ContentStoreLimits.max_file_bytes
    MaxObject,       \* ContentStoreLimits.max_object_bytes
    Attempts,        \* TEMP_NAME_ATTEMPTS
    MaxCrashes,      \* bound on the crashes of all processes
    MaxFaults        \* bound on damaged objects and failing system calls

ASSUME StoreAssumption ==
    /\ Pids \subseteq Nat \ {0}          \* zero identifies no process
    /\ Files \subseteq Seq(Nat)
    /\ Chunk \in Nat \ {0}
    /\ MaxFile \in Nat /\ MaxObject \in Nat /\ Attempts \in Nat
    /\ MaxCrashes \in Nat /\ MaxFaults \in Nat

VARIABLES
    object,    \* the directory's published names: identifier -> inode
    temp,      \* its temporary names: <<pid, number>> -> inode
    inode,     \* what each inode holds
    proc,      \* the state of each process
    receipts,  \* files whose store_file returned success
    crashes, faults,
    left       \* temporary names that stay: their writer was killed, or the
               \* system refuses their removal

storeVars == <<object, temp, inode, proc, receipts, crashes, faults, left>>

Rubbish == [kind |-> "rubbish", of |-> <<>>]
Partial == [kind |-> "partial", of |-> <<>>]
ChunkOf(bytes) == [kind |-> "chunk", of |-> bytes]
ManifestOf(file) == [kind |-> "manifest", of |-> file]

(* The objects a stored file consists of.                                  *)
PieceAt(file, i) ==
    SubSeq(file, i * Chunk + 1,
           IF (i + 1) * Chunk < Len(file) THEN (i + 1) * Chunk ELSE Len(file))
Pieces(file) == {PieceAt(file, i) : i \in 0..((Len(file) - 1) \div Chunk)}
ObjectsOf(file) ==
    {ManifestOf(file)} \cup (IF file = <<>> THEN {} ELSE {ChunkOf(b) : b \in Pieces(file)})

(* A directory with one more name.                                         *)
Bind(dir, name, i) == [n \in DOMAIN dir \cup {name} |-> IF n = name THEN i ELSE dir[n]]

NoTemp == <<0, 0>>
NoPut == [of |-> Partial, known |-> FALSE]

Idle(pid, file) ==
    [pc |-> "chunk", pid |-> pid, next |-> 0, file |-> file, total |-> 0, seen |-> {},
     put |-> NoPut, tmp |-> NoTemp, tries |-> 0, result |-> "none"]

StoreInit ==
    /\ object = <<>> /\ temp = <<>> /\ inode = <<>>
    /\ proc \in {p \in [Procs -> {Idle(i, f) : i \in Pids, f \in Files}] :
                    IsInjective([q \in Procs |-> p[q].pid])}
    /\ receipts = {} /\ crashes = 0 /\ faults = 0 /\ left = {}

Live(p) == proc[p].pc \notin {"down", "ended"}

(* Leave: the process only changes its own state.                          *)
Become(p, r) == proc' = [proc EXCEPT ![p] = r]
Local(p, r) == Become(p, r) /\ UNCHANGED <<object, temp, inode, receipts, crashes, faults, left>>

(* TempFileGuard: whatever the function returns, its temporary name goes,  *)
(* unless the system refuses; drop does not look at the outcome.           *)
Dropped(p) == [t \in DOMAIN temp \ ({proc[p].tmp} \ left) |-> temp[t]]

(* A call returns with a result; the guard removes the staged file.        *)
Return(p, result) ==
    /\ Become(p, [proc[p] EXCEPT !.pc = "ended", !.result = result, !.tmp = NoTemp])
    /\ temp' = Dropped(p)
    /\ receipts' = IF result = "ok" THEN receipts \cup {proc[p].file} ELSE receipts
    /\ UNCHANGED <<object, inode, crashes, faults, left>>

(***************************************************************************)
(* store_file                                                              *)
(***************************************************************************)
Remaining(p) == MaxFile - proc[p].total
(* Faulty variant: the last chunk is read without probing for more input.  *)
ReadLimitNoProbe(p) == IF Remaining(p) < Chunk THEN Remaining(p) ELSE Chunk
ReadLimit(p) == IF Remaining(p) < Chunk THEN Remaining(p) + 1 ELSE Chunk

(* fill_chunk: as many bytes as there are, up to the limit.                *)
Filled(p) ==
    LET end == proc[p].total + ReadLimit(p)
    IN SubSeq(proc[p].file, proc[p].total + 1,
              IF end < Len(proc[p].file) THEN end ELSE Len(proc[p].file))

PutKnown(p, r, content) ==
    IF Len(content.of) > MaxObject THEN Return(p, "SecurityPolicy")
    ELSE Local(p, [r EXCEPT !.pc = "known", !.put = [of |-> content, known |-> TRUE]])

(* One turn of the loop: read a chunk; a repeated one needs no store call. *)
ReadChunk(p) ==
    /\ proc[p].pc = "chunk"
    /\ LET bytes == Filled(p)
           total == proc[p].total + Len(bytes)
           last == Len(bytes) < Chunk
           r == [proc[p] EXCEPT !.total = total]
       IN CASE proc[p].total = MaxFile /\ Len(proc[p].file) > MaxFile ->
                 Return(p, "SecurityPolicy")
            [] proc[p].total = MaxFile /\ Len(proc[p].file) <= MaxFile ->
                 Local(p, [proc[p] EXCEPT !.pc = "manifest"])
            [] proc[p].total # MaxFile /\ bytes = <<>> ->
                 Local(p, [proc[p] EXCEPT !.pc = "manifest"])
            [] proc[p].total # MaxFile /\ bytes # <<>> /\ total > MaxFile ->
                 Return(p, "SecurityPolicy")
            [] proc[p].total # MaxFile /\ bytes # <<>> /\ total <= MaxFile ->
                 IF bytes \in proc[p].seen
                 THEN Local(p, [r EXCEPT !.pc = IF last THEN "manifest" ELSE "chunk"])
                 ELSE PutKnown(p, r, ChunkOf(bytes))

(* The canonical manifest becomes an object like the chunks, unless it is  *)
(* longer than an object may be.                                           *)
WriteManifest(p) ==
    /\ proc[p].pc = "manifest"
    /\ LET content == ManifestOf(SubSeq(proc[p].file, 1, proc[p].total))
       IN \/ Local(p, [proc[p] EXCEPT !.pc = "known",
                                      !.put = [of |-> content, known |-> TRUE]])
          \/ Return(p, "SecurityPolicy")

(* Faulty variant: a short last chunk ends the file without its manifest.  *)
StoredEarly(p) ==
    LET put == proc[p].put.of
        r == [proc[p] EXCEPT !.put = NoPut, !.tmp = NoTemp, !.tries = 0]
    IN IF put.kind = "chunk" /\ Len(put.of) = Chunk
       THEN [r EXCEPT !.seen = @ \cup {put.of}, !.pc = "chunk"]
       ELSE [r EXCEPT !.pc = "ended", !.result = "ok"]

(* The put returned: store_file goes on with the next chunk, or is done.   *)
Stored(p) ==
    LET put == proc[p].put.of
        r == [proc[p] EXCEPT !.put = NoPut, !.tmp = NoTemp, !.tries = 0]
    IN IF put.kind = "chunk"
       THEN [r EXCEPT !.seen = @ \cup {put.of},
                      !.pc = IF Len(put.of) < Chunk THEN "manifest" ELSE "chunk"]
       ELSE [r EXCEPT !.pc = "ended", !.result = "ok"]

Put(p) ==
    /\ Become(p, Stored(p))
    /\ receipts' = IF Stored(p).result = "ok" THEN receipts \cup {proc[p].file} ELSE receipts

(***************************************************************************)
(* put_known_bytes, stage_object, commit_staged                            *)
(***************************************************************************)
Exists(p) == proc[p].put.of \in DOMAIN object

(* verified_existing: the object file is decompressed and hashed.          *)
Verified(p) == Exists(p) /\ inode[object[proc[p].put.of]] = proc[p].put.of

(* put_known_bytes: an object that is already there is only verified.      *)
FindExisting(p) ==
    /\ proc[p].pc = "known"
    /\ IF Exists(p) /\ ~Verified(p) THEN Return(p, "PackageCorrupt")
       ELSE IF Verified(p)
       THEN Put(p) /\ UNCHANGED <<object, temp, inode, crashes, faults, left>>
       ELSE Local(p, [proc[p] EXCEPT !.pc = "create", !.tries = 0])

NextTemp(p) == <<proc[p].pid, proc[p].next>>

(* Faulty variant: the temporary file is opened without create_new, so a   *)
(* leftover of the same name is truncated and written again.               *)
CreateTempReuses(p) ==
    /\ proc[p].pc = "create" /\ proc[p].tries < Attempts
    /\ LET r == [proc[p] EXCEPT !.next = @ + 1, !.tries = @ + 1]
           n == IF NextTemp(p) \in DOMAIN temp THEN temp[NextTemp(p)] ELSE Len(inode) + 1
       IN /\ inode' = [i \in 1..(IF n > Len(inode) THEN n ELSE Len(inode)) |->
                           IF i = n THEN Partial ELSE inode[i]]
          /\ temp' = Bind(temp, NextTemp(p), n)
          /\ Become(p, [r EXCEPT !.pc = "write", !.tmp = NextTemp(p)])
    /\ UNCHANGED <<object, receipts, crashes, faults, left>>

(* Faulty variant: the same name is tried until it is free.                *)
CreateTempForever(p) ==
    /\ proc[p].pc = "create"
    /\ IF NextTemp(p) \in DOMAIN temp
       THEN UNCHANGED <<proc, temp, inode>>
       ELSE /\ inode' = Append(inode, Partial)
            /\ temp' = Bind(temp, NextTemp(p), Len(inode) + 1)
            /\ Become(p, [proc[p] EXCEPT !.next = @ + 1, !.pc = "write", !.tmp = NextTemp(p)])
    /\ UNCHANGED <<object, receipts, crashes, faults, left>>

(* create_temp_file: one name is tried; an existing one is left alone.     *)
CreateTemp(p) ==
    /\ proc[p].pc = "create" /\ proc[p].tries < Attempts
    /\ LET r == [proc[p] EXCEPT !.next = @ + 1, !.tries = @ + 1]
       IN IF NextTemp(p) \in DOMAIN temp
          THEN Become(p, r) /\ UNCHANGED <<temp, inode>>
          ELSE /\ inode' = Append(inode, Partial)
               /\ temp' = Bind(temp, NextTemp(p), Len(inode) + 1)
               /\ Become(p, [r EXCEPT !.pc = "write", !.tmp = NextTemp(p)])
    /\ UNCHANGED <<object, receipts, crashes, faults, left>>

NoTempName(p) ==
    /\ proc[p].pc = "create" /\ proc[p].tries >= Attempts
    /\ Return(p, "TargetConflict")

(* The compressed stream is written, flushed, synchronised and read back.  *)
WriteTemp(p) ==
    /\ proc[p].pc = "write"
    /\ inode' = [inode EXCEPT ![temp[proc[p].tmp]] = proc[p].put.of]
    /\ Become(p, [proc[p] EXCEPT !.pc = "commit"])
    /\ UNCHANGED <<object, temp, receipts, crashes, faults, left>>

(* Faulty variant: the staged file of an object that is there already is   *)
(* kept.                                                                   *)
CheckCommittedLeaks(p) ==
    /\ proc[p].pc = "commit"
    /\ IF Exists(p) /\ ~Verified(p) THEN Return(p, "PackageCorrupt")
       ELSE IF Verified(p)
       THEN Put(p) /\ UNCHANGED <<object, temp, inode, crashes, faults, left>>
       ELSE Local(p, [proc[p] EXCEPT !.pc = "link"])

(* commit_staged: another process may have published the same object.      *)
CheckCommitted(p) ==
    /\ proc[p].pc = "commit"
    /\ IF Exists(p) /\ ~Verified(p) THEN Return(p, "PackageCorrupt")
       ELSE IF Verified(p)
       THEN Put(p) /\ temp' = Dropped(p) /\ UNCHANGED <<object, inode, crashes, faults, left>>
       ELSE Local(p, [proc[p] EXCEPT !.pc = "link"])

(* hard_link publishes the inode, or finds that the name is taken.         *)
Link(p) ==
    /\ proc[p].pc = "link"
    /\ IF Exists(p)
       THEN IF Verified(p)
            THEN Put(p) /\ temp' = Dropped(p) /\ UNCHANGED <<object, inode, crashes, faults, left>>
            ELSE Return(p, "PackageCorrupt")
       ELSE /\ object' = Bind(object, proc[p].put.of, temp[proc[p].tmp])
            /\ Become(p, [proc[p] EXCEPT !.pc = "unlink"])
            /\ UNCHANGED <<temp, inode, receipts, crashes, faults, left>>

(* The temporary name is removed.                                          *)
Unlink(p) ==
    /\ proc[p].pc = "unlink" /\ proc[p].tmp \notin left
    /\ Put(p) /\ temp' = Dropped(p) /\ UNCHANGED <<object, inode, crashes, faults, left>>

(* A refused removal is an error although the object is published; the     *)
(* guard is refused as well.                                               *)
UnlinkFails(p) ==
    /\ proc[p].pc = "unlink" /\ proc[p].tmp \in left
    /\ Return(p, "OperationFailed")

(* Faulty variant: what failed returns without the guard.                  *)
StepFailsLeaks(p) ==
    /\ proc[p].pc \notin {"manifest", "down", "ended"} /\ faults < MaxFaults
    /\ faults' = faults + 1
    /\ Become(p, [proc[p] EXCEPT !.pc = "ended", !.result = "OperationFailed", !.tmp = NoTemp])
    /\ UNCHANGED <<object, temp, inode, receipts, crashes, left>>

(* A system call fails: reading the source, looking for the object,        *)
(* creating, writing, flushing, synchronising or reading back the staged   *)
(* file, the hard link, the first removal.  The error returns through the  *)
(* guard.                                                                  *)
StepFails(p) ==
    /\ proc[p].pc \notin {"manifest", "down", "ended"} /\ faults < MaxFaults
    /\ faults' = faults + 1
    /\ Become(p, [proc[p] EXCEPT !.pc = "ended", !.result = "OperationFailed", !.tmp = NoTemp])
    /\ temp' = Dropped(p)
    /\ UNCHANGED <<object, inode, receipts, crashes, left>>

(***************************************************************************)
(* Faults                                                                  *)
(***************************************************************************)
(* The process is killed: no guard runs.                                   *)
Crash(p) ==
    /\ Live(p) /\ crashes < MaxCrashes
    /\ crashes' = crashes + 1
    /\ Become(p, [proc[p] EXCEPT !.pc = "down"])
    /\ left' = left \cup (DOMAIN temp \cap {proc[p].tmp})
    /\ UNCHANGED <<object, temp, inode, receipts, faults>>

(* Another program opens a staged file, so that it cannot be removed.      *)
Hold(t) ==
    /\ faults < MaxFaults /\ t \in DOMAIN temp \ left
    /\ left' = left \cup {t}
    /\ faults' = faults + 1
    /\ UNCHANGED <<object, temp, inode, proc, receipts, crashes>>

(* A new process, with any free identifier, stores the same file again.    *)
Restart(p) ==
    /\ proc[p].pc = "down"
    /\ \E pid \in Pids \ {proc[q].pid : q \in {q \in Procs : Live(q)}} :
          Local(p, Idle(pid, proc[p].file))

(* A published object is damaged on the disk.                              *)
Damage(c) ==
    /\ faults < MaxFaults /\ c \in DOMAIN object
    /\ inode[object[c]] # Rubbish
    /\ inode' = [inode EXCEPT ![object[c]] = Rubbish]
    /\ faults' = faults + 1
    /\ UNCHANGED <<object, temp, proc, receipts, crashes, left>>

ProcessStep(p) ==
    \/ ReadChunk(p) \/ WriteManifest(p) \/ FindExisting(p)
    \/ CreateTemp(p) \/ NoTempName(p) \/ WriteTemp(p)
    \/ CheckCommitted(p) \/ Link(p) \/ Unlink(p) \/ UnlinkFails(p) \/ StepFails(p)

StoreNext ==
    \/ \E p \in Procs : ProcessStep(p) \/ Crash(p) \/ Restart(p)
    \/ \E c \in DOMAIN object : Damage(c)
    \/ \E t \in DOMAIN temp : Hold(t)
    \/ (\A p \in Procs : proc[p].pc = "ended") /\ UNCHANGED storeVars

StoreSpec == StoreInit /\ [][StoreNext]_storeVars

(***************************************************************************)
(* Properties                                                              *)
(***************************************************************************)
(* Names refer to inodes, and no two names of one kind share an inode.     *)
StoreTypeOK ==
    /\ \A c \in DOMAIN object : object[c] \in DOMAIN inode
    /\ \A t \in DOMAIN temp : temp[t] \in DOMAIN inode
    /\ IsInjective(object) /\ IsInjective(temp)
    /\ \A p \in Procs : proc[p].tmp = NoTemp \/ proc[p].tmp \in DOMAIN temp

(* A published object holds exactly the content that names it: no crash,   *)
(* no second writer and no reused process identifier ever writes through   *)
(* a name that shares its inode.                                           *)
ObjectsAreTheirContent ==
    \A c \in DOMAIN object : inode[object[c]] \in {c, Rubbish}
                             /\ (faults = 0 => inode[object[c]] = c)

(* Whichever way a put ends, by success, by a conflict or by an error of   *)
(* any of its system calls, it leaves no temporary file behind: what is in *)
(* the directory belongs to a put under way, or its writer was killed, or  *)
(* the system refused to remove it.                                        *)
NoLeftovers ==
    \A t \in DOMAIN temp : t \in left \/ \E p \in Procs : Live(p) /\ proc[p].tmp = t

(* A file longer than the limit is never reported as stored.               *)
LimitHolds == \A f \in receipts : Len(f) <= MaxFile

(* The store as its callers see it: a set of contents that only grows, and *)
(* receipts for files all of whose objects are in it.                      *)
Abstract == INSTANCE ObjectStoreAbstract WITH store <- DOMAIN object, receipts <- receipts
ImplementsStore == Abstract!Spec

(* Files for TLC, with chunks of two bytes.                                *)
MCFiles == {<<1>>, <<1, 1>>}

(* The processes are interchangeable.                                      *)
MCSymmetry == Permutations(Procs)
=============================================================================
