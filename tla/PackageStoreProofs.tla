------------------------- MODULE PackageStoreProofs -------------------------
(***************************************************************************)
(* Safety of the object store for every chunk size, every set of files and *)
(* any number of processes, killed and restarted at any moment.            *)
(*                                                                         *)
(* The argument.  A process writes only to the inode under its temporary   *)
(* name.  create_new gives it a name nobody uses, and live processes have  *)
(* different identifiers, so no two of them ever hold the same name        *)
(* (DistinctPids, Staged); an inode is published once, when it already     *)
(* holds its content, and its last writer does not write again.  What a    *)
(* process has read of its file is a whole number of chunks, all of them   *)
(* published (Chunking), so the manifest it publishes last completes the   *)
(* file.                                                                   *)
(***************************************************************************)
EXTENDS PackageStore, SequenceTheorems, TLAPS

-----------------------------------------------------------------------------
(* The inductive invariant.                                                *)

Bytes == Seq(Nat)
Content == [kind : {"rubbish", "partial", "chunk", "manifest"}, of : Bytes]
TempName == (Pids \X Nat) \cup {NoTemp}

Stores == [pc : {"chunk", "manifest", "known", "create", "write", "commit", "link",
                 "unlink", "ended", "down"},
           pid : Pids, next : Nat, file : Files, total : Nat, seen : SUBSET Bytes,
           put : [of : Content, known : BOOLEAN], tmp : TempName, tries : Nat,
           result : {"none", "ok", "SecurityPolicy", "PackageCorrupt", "TargetConflict",
                     "OperationFailed"}]

(* Every name refers to an inode of its own.                               *)
Directory ==
    /\ inode \in Seq(Content)
    /\ \A c \in DOMAIN object : object[c] \in DOMAIN inode
    /\ \A t \in DOMAIN temp : t \in Pids \X Nat /\ temp[t] \in DOMAIN inode
    /\ IsInjective(object) /\ IsInjective(temp)

Running(r) == r.pc \notin {"down", "ended"}
Holds(r) == r.pc \in {"write", "commit", "link", "unlink"}

(* A process between create_temp_file and the removal of its file has a    *)
(* name that carries its identifier; until it is linked the inode is not   *)
(* published, and from the write on it holds the content.                  *)
Staged(r, names, temps, nodes) ==
    /\ Holds(r) => r.tmp \in DOMAIN temps /\ r.tmp[1] = r.pid
    /\ r.pc \in {"write", "commit", "link"} =>
          \A c \in DOMAIN names : names[c] # temps[r.tmp]
    /\ r.pc \in {"commit", "link"} => nodes[temps[r.tmp]] = r.put.of
    /\ ~Holds(r) /\ r.pc # "down" => r.tmp = NoTemp

DistinctPids ==
    \A p, q \in Procs : Running(proc[p]) /\ Running(proc[q]) /\ proc[p].pid = proc[q].pid
                        => p = q

Putting == {"known", "create", "write", "commit", "link", "unlink"}

(* The first k chunks of a file are among the chunks a process has stored. *)
Read(r, k) == \A i \in 0..(k - 1) : PieceAt(r.file, i) \in r.seen

(* All of them are.                                                        *)
Complete(r) ==
    /\ r.total = Len(r.file)
    /\ \A i \in Nat : i * Chunk < Len(r.file) => PieceAt(r.file, i) \in r.seen

(* The chunk that is being stored is the next one.                         *)
NextPiece(r, k) ==
    /\ r.put.of = ChunkOf(PieceAt(r.file, k))
    /\ k * Chunk < Len(r.file)
    /\ r.total = k * Chunk + Len(r.put.of.of)
    /\ Len(r.put.of.of) <= Chunk
    /\ Len(r.put.of.of) < Chunk => r.total = Len(r.file)

Chunking(r, names) ==
    /\ r.total <= Len(r.file) /\ r.total <= MaxFile
    /\ Running(r) => r.result = "none"
    /\ \A b \in r.seen : ChunkOf(b) \in names
    /\ r.pc = "chunk" => \E k \in Nat : r.total = k * Chunk /\ Read(r, k)
    /\ r.pc = "manifest" => Complete(r)
    /\ r.pc \in Putting =>
          \/ r.put.of = ManifestOf(r.file) /\ Complete(r)
          \/ \E k \in Nat : Read(r, k) /\ NextPiece(r, k)
    /\ r.pc = "unlink" => r.put.of \in names

StoreInv ==
    /\ proc \in [Procs -> Stores]
    /\ receipts \subseteq Files
    /\ crashes \in Nat /\ faults \in Nat
    /\ Directory
    /\ DistinctPids
    /\ \A p \in Procs : /\ Staged(proc[p], object, temp, inode)
                        /\ Chunking(proc[p], DOMAIN object)
    /\ ObjectsAreTheirContent
    /\ NoLeftovers
    /\ LimitHolds

-----------------------------------------------------------------------------
(* Chunks.                                                                 *)

(* Chunks follow one another: the arithmetic of positions.                 *)
LEMMA Positions ==
    /\ Chunk \in Nat /\ Chunk > 0
    /\ \A i \in Nat : i * Chunk \in Nat /\ (i + 1) * Chunk = i * Chunk + Chunk
    /\ \A i, k \in Nat : i * Chunk < (k + 1) * Chunk => i <= k
    /\ \A i, k \in Nat : i * Chunk < k * Chunk => i < k
  <1>1. Chunk \in Nat \ {0}
    BY StoreAssumption
  <1>2. \A i, k \in Nat : i * Chunk < (k + 1) * Chunk => i <= k
    BY <1>1
  <1>3. \A i, k \in Nat : i * Chunk < k * Chunk => i < k
    BY <1>1
  <1>4. \A i \in Nat : i * Chunk \in Nat /\ (i + 1) * Chunk = i * Chunk + Chunk
    BY <1>1
  <1> QED
    BY <1>1, <1>2, <1>3, <1>4

(* The chunks of a file are the pieces at the positions inside it.         *)
LEMMA PiecesArePositions ==
    ASSUME NEW f \in Bytes, f # <<>>, NEW b \in Pieces(f)
    PROVE  \E i \in Nat : i * Chunk < Len(f) /\ b = PieceAt(f, i)
  <1>1. Len(f) \in Nat \ {0} /\ Chunk \in Nat \ {0}
    BY StoreAssumption DEF Bytes
  <1>2. PICK i \in 0..((Len(f) - 1) \div Chunk) : b = PieceAt(f, i)
    BY DEF Pieces
  <1> DEFINE n == Len(f) - 1
             d == n \div Chunk
  <1>3. n \in Nat /\ d \in Nat /\ d * Chunk <= n
    BY <1>1
  <1>4. i \in Nat /\ i * Chunk <= d * Chunk
    BY <1>1, <1>3, <1>2
  <1>5. i * Chunk \in Nat /\ d * Chunk \in Nat
    BY <1>1, <1>3, <1>4
  <1>6. i * Chunk < Len(f)
    BY <1>1, <1>3, <1>4, <1>5
  <1> QED
    BY <1>2, <1>4, <1>6

(* What fill_chunk delivers within the limit is the next chunk, and it is  *)
(* short only at the end of the file.                                      *)
LEMMA FilledIsNext ==
    ASSUME NEW p \in Procs, proc[p] \in Stores, NEW k \in Nat,
           proc[p].total = k * Chunk, proc[p].total <= Len(proc[p].file),
           proc[p].total < MaxFile
    PROVE  /\ Filled(p) \in Bytes
           /\ Filled(p) = <<>> => proc[p].total = Len(proc[p].file)
           /\ (Filled(p) # <<>> /\ proc[p].total + Len(Filled(p)) <= MaxFile) =>
                /\ Filled(p) = PieceAt(proc[p].file, k)
                /\ k * Chunk < Len(proc[p].file)
                /\ Len(Filled(p)) <= Chunk
                /\ proc[p].total + Len(Filled(p)) <= Len(proc[p].file)
                /\ Len(Filled(p)) < Chunk
                     => proc[p].total + Len(Filled(p)) = Len(proc[p].file)
  <1> DEFINE f == proc[p].file
             n == Len(f)
             t == proc[p].total
             e == t + ReadLimit(p)
             m == IF e < n THEN e ELSE n
  <1>1. f \in Bytes /\ n \in Nat /\ t \in Nat /\ MaxFile \in Nat
    BY StoreAssumption DEF Stores, Bytes
  <1>2. Chunk \in Nat /\ Chunk > 0 /\ (k + 1) * Chunk = t + Chunk
    BY Positions
  <1>3. /\ ReadLimit(p) = IF MaxFile - t < Chunk THEN MaxFile - t + 1 ELSE Chunk
        /\ ReadLimit(p) \in Nat /\ ReadLimit(p) > 0
    BY <1>1, <1>2 DEF ReadLimit, Remaining
  <1>4. Filled(p) = SubSeq(f, t + 1, m)
    BY DEF Filled
  <1>5. e \in Nat /\ m \in Nat /\ m <= n /\ t <= m
    BY <1>1, <1>3, SMTT(40)
  <1>6. Filled(p) \in Bytes /\ Len(Filled(p)) = m - t
    <2> HIDE DEF m, t, f, n
    <2>1. Len(f) = n
      BY DEF n
    <2>2. t + 1 \in 1..(n + 1) /\ m \in t..n
      BY <1>1, <1>5
    <2>3. SubSeq(f, t + 1, m) \in Seq(Nat) /\ Len(SubSeq(f, t + 1, m)) = m - t
      BY <1>1, <1>5, <2>1, <2>2, SubSeqProperties DEF Bytes
    <2> QED
      BY <1>4, <2>3 DEF Bytes
  <1>7. Filled(p) = <<>> <=> m = t
    <2> DEFINE s == Filled(p)
    <2>1. s \in Seq(Nat) /\ Len(s) = m - t
      BY <1>6 DEF Bytes
    <2> HIDE DEF s, m
    <2>2. s = <<>> <=> Len(s) = 0
      BY <2>1
    <2> QED
      BY <1>1, <1>5, <2>1, <2>2 DEF s
  <1>8. Filled(p) = <<>> => t = n
    BY <1>1, <1>3, <1>7
  <1>9. ASSUME Filled(p) # <<>>, t + Len(Filled(p)) <= MaxFile
        PROVE  /\ Filled(p) = PieceAt(f, k)
               /\ k * Chunk < n
               /\ Len(Filled(p)) <= Chunk
               /\ t + Len(Filled(p)) <= n
               /\ Len(Filled(p)) < Chunk => t + Len(Filled(p)) = n
    <2>1. t < m /\ m <= MaxFile
      BY <1>1, <1>5, <1>6, <1>7, <1>9
    <2>2. m = IF t + Chunk < n THEN t + Chunk ELSE n
      BY <1>1, <1>2, <1>3, <2>1, SMTT(40)
    <2>3. Filled(p) = PieceAt(f, k)
      BY <1>2, <1>4, <2>2 DEF PieceAt
    <2> QED
      BY <1>1, <1>2, <1>5, <1>6, <2>1, <2>2, <2>3, SMTT(40)
  <1> QED
    BY <1>6, <1>8, <1>9

(* When the chunk at position k is stored the process has read one more,   *)
(* and the file is complete when the chunk was short.                      *)
LEMMA PieceStored ==
    ASSUME NEW r \in Stores, NEW k \in Nat, Read(r, k), NEW b \in Bytes,
           b = PieceAt(r.file, k), r.total = k * Chunk + Len(b), Len(b) <= Chunk,
           Len(b) < Chunk => r.total = Len(r.file),
           NEW s, s.file = r.file, s.total = r.total, s.seen = r.seen \cup {b}
    PROVE  /\ Len(b) < Chunk => Complete(s)
           /\ Len(b) >= Chunk => s.total = (k + 1) * Chunk /\ Read(s, k + 1)
  <1>1. \A i \in 0..k : PieceAt(s.file, i) \in s.seen
    BY DEF Read
  <1>2. Len(b) \in Nat /\ r.total \in Nat
    BY DEF Bytes, Stores
  <1>3. ASSUME Len(b) < Chunk PROVE Complete(s)
    <2>1. Len(s.file) < (k + 1) * Chunk
      BY <1>2, <1>3, Positions
    <2>2. \A i \in Nat : i * Chunk < Len(s.file) => i \in 0..k
      <3> SUFFICES ASSUME NEW i \in Nat, i * Chunk < Len(s.file) PROVE i \in 0..k
        OBVIOUS
      <3>1. i * Chunk \in Nat /\ (k + 1) * Chunk \in Nat /\ Len(s.file) \in Nat
        BY <1>2, <1>3, Positions
      <3>2. i * Chunk < (k + 1) * Chunk
        BY <2>1, <3>1
      <3> QED
        BY <3>2, Positions
    <2> QED
      BY <1>1, <1>3, <2>2 DEF Complete
  <1>4. ASSUME Len(b) >= Chunk PROVE s.total = (k + 1) * Chunk /\ Read(s, k + 1)
    BY <1>1, <1>2, <1>4, Positions DEF Read
  <1> QED
    BY <1>3, <1>4

(* A process that has read k whole chunks and finds the end of the file    *)
(* has all of them.                                                        *)
LEMMA EndOfFile ==
    ASSUME NEW r \in Stores, NEW k \in Nat, r.total = k * Chunk, Read(r, k),
           r.total = Len(r.file)
    PROVE  Complete(r)
  <1>1. \A i \in Nat : i * Chunk < Len(r.file) => i \in 0..(k - 1)
    BY Positions
  <1> QED
    BY <1>1 DEF Read, Complete

-----------------------------------------------------------------------------
(* Processes and names.                                                    *)

(* A running process never holds the temporary name of another one.        *)
LEMMA TempsDiffer ==
    ASSUME StoreInv, NEW p \in Procs, NEW q \in Procs, p # q,
           Running(proc[p]), Holds(proc[q])
    PROVE  proc[q].tmp # proc[p].tmp
  <1>1. /\ proc[p] \in Stores /\ proc[q] \in Stores
        /\ Staged(proc[p], object, temp, inode) /\ Staged(proc[q], object, temp, inode)
    BY DEF StoreInv
  <1>2. Running(proc[q]) /\ proc[q].pid # proc[p].pid
    BY DEF Running, Holds, StoreInv, DistinctPids
  <1>3. proc[q].tmp[1] = proc[q].pid /\ proc[q].pid \in Nat \ {0}
    BY <1>1, StoreAssumption DEF Staged, Stores
  <1>4. CASE Holds(proc[p])
    BY <1>1, <1>2, <1>3, <1>4 DEF Staged
  <1>5. CASE ~Holds(proc[p])
    <2>1. proc[p].tmp = NoTemp /\ NoTemp[1] = 0
      BY <1>1, <1>5 DEF Staged, Running, NoTemp
    <2> QED
      BY <1>3, <2>1
  <1> QED
    BY <1>4, <1>5

(* Going on with a put, or ending, changes nothing that was read.          *)
LEMMA ChunkingGoesOn ==
    ASSUME NEW r, NEW names, NEW names2, names \subseteq names2, Chunking(r, names),
           NEW s, s.file = r.file, s.total = r.total, s.seen = r.seen,
           \/ s.pc \in {"ended", "down"}
           \/ /\ r.pc \in Putting /\ s.pc \in Putting
              /\ s.put = r.put /\ s.result = r.result
              /\ s.pc = "unlink" => s.put.of \in names2
    PROVE  Chunking(s, names2)
  <1>1. CASE s.pc \in {"ended", "down"}
    BY <1>1 DEF Chunking, Running, Putting
  <1>2. CASE /\ r.pc \in Putting /\ s.pc \in Putting
             /\ s.put = r.put /\ s.result = r.result
             /\ s.pc = "unlink" => s.put.of \in names2
    <2>1. \/ r.put.of = ManifestOf(r.file) /\ Complete(r)
          \/ \E k \in Nat : Read(r, k) /\ NextPiece(r, k)
      BY <1>2 DEF Chunking
    <2>2. \/ s.put.of = ManifestOf(s.file) /\ Complete(s)
          \/ \E k \in Nat : Read(s, k) /\ NextPiece(s, k)
      BY <1>2, <2>1 DEF Complete, Read, NextPiece
    <2>3. Running(r) /\ s.pc # "chunk" /\ s.pc # "manifest"
      BY <1>2 DEF Running, Putting
    <2> QED
      BY <1>2, <2>2, <2>3 DEF Chunking
  <1> QED
    BY <1>1, <1>2

(* Objects are never withdrawn, so a record stays right when others        *)
(* publish.                                                                *)
LEMMA ChunkingGrows ==
    ASSUME NEW r, NEW names, NEW names2, names \subseteq names2, Chunking(r, names)
    PROVE  Chunking(r, names2)
  BY DEF Chunking

(* What a step of p must establish for the processes and their names when  *)
(* the published names grow.                                               *)
LEMMA ProcessesKept ==
    ASSUME StoreInv, NEW p \in Procs, NEW r \in Stores, Become(p, r),
           Running(r) => Running(proc[p]) /\ r.pid = proc[p].pid,
           Staged(r, object', temp', inode'), Chunking(r, DOMAIN object'),
           DOMAIN object \subseteq DOMAIN object',
           \A q \in Procs : q # p => Staged(proc[q], object', temp', inode')
    PROVE  /\ (proc \in [Procs -> Stores])'
           /\ DistinctPids'
           /\ \A q \in Procs : /\ Staged(proc'[q], object', temp', inode')
                               /\ Chunking(proc'[q], DOMAIN object')
  <1>1. proc \in [Procs -> Stores] /\ proc' = [proc EXCEPT ![p] = r]
    BY DEF StoreInv, Become
  <1>2. /\ proc' \in [Procs -> Stores] /\ proc'[p] = r
        /\ \A q \in Procs : q # p => proc'[q] = proc[q]
    BY <1>1
  <1>3. DistinctPids'
    BY <1>2 DEF StoreInv, DistinctPids
  <1>4. \A q \in Procs : Chunking(proc'[q], DOMAIN object')
    BY <1>2, ChunkingGrows DEF StoreInv
  <1> QED
    BY <1>2, <1>3, <1>4

(* A step that leaves objects and inodes alone and at most drops the       *)
(* temporary name of its process keeps the invariant.                      *)
LEMMA QuietStep ==
    ASSUME StoreInv, NEW p \in Procs, Running(proc[p]), NEW r \in Stores, Become(p, r),
           Running(r) => r.pid = proc[p].pid,
           UNCHANGED <<object, inode, crashes, left>>,
           temp' = temp \/ temp' = Dropped(p),
           faults' = faults \/ faults' = faults + 1,
           Staged(r, object, temp', inode), Chunking(r, DOMAIN object),
           \/ receipts' = receipts
           \/ /\ receipts' = receipts \cup {proc[p].file}
              /\ Len(proc[p].file) <= MaxFile,
           \/ temp' = Dropped(p)
           \/ proc[p].tmp = NoTemp
           \/ Running(r) /\ r.tmp = proc[p].tmp
    PROVE  StoreInv'
  <1>1. /\ proc \in [Procs -> Stores] /\ proc'[p] = r
        /\ \A q \in Procs : q # p => proc'[q] = proc[q]
    BY DEF StoreInv, Become
  <1>2. /\ DOMAIN temp' \subseteq DOMAIN temp
        /\ \A t \in DOMAIN temp' : temp'[t] = temp[t]
        /\ \A t \in DOMAIN temp : t # proc[p].tmp => t \in DOMAIN temp'
    BY DEF Dropped
  <1>3. Directory'
    BY <1>2 DEF StoreInv, Directory, IsInjective
  <1>4. ASSUME NEW q \in Procs, q # p PROVE Staged(proc[q], object', temp', inode')
    <2>1. Holds(proc[q]) => proc[q].tmp # proc[p].tmp
      BY <1>4, TempsDiffer
    <2>2. Holds(proc[q]) <=> proc[q].pc \in {"write", "commit", "link", "unlink"}
      BY DEF Holds
    <2> QED
      BY <1>2, <2>1, <2>2 DEF StoreInv, Staged
  <1>5. /\ (proc \in [Procs -> Stores])'
        /\ DistinctPids'
        /\ \A q \in Procs : /\ Staged(proc'[q], object', temp', inode')
                            /\ Chunking(proc'[q], DOMAIN object')
    BY <1>4, ProcessesKept
  <1>6. (receipts \subseteq Files)' /\ LimitHolds'
    BY <1>1 DEF StoreInv, LimitHolds, Stores
  <1>7. ObjectsAreTheirContent' /\ (crashes \in Nat /\ faults \in Nat)'
    BY DEF StoreInv, ObjectsAreTheirContent
  <1>8. NoLeftovers'
    <2> SUFFICES ASSUME NEW t \in DOMAIN temp', t \notin left
                 PROVE  \E q \in Procs : Live(q)' /\ proc'[q].tmp = t
      BY DEF NoLeftovers
    <2>2. PICK q \in Procs : Live(q) /\ proc[q].tmp = t
      BY <1>2 DEF StoreInv, NoLeftovers
    <2>3. CASE q # p
      BY <1>1, <2>2, <2>3 DEF Live
    <2>4. CASE q = p
      <3>1. temp' # Dropped(p)
        BY <2>2, <2>4 DEF Dropped
      <3>2. t \in Pids \X Nat
        BY <1>2 DEF StoreInv, Directory
      <3>3. t # NoTemp
        BY <3>2, StoreAssumption DEF NoTemp
      <3>4. Running(r) /\ r.tmp = t
        BY <2>2, <2>4, <3>1, <3>3
      <3> QED
        BY <1>1, <3>4 DEF Live, Running
    <2> QED
      BY <2>3, <2>4
  <1> QED
    BY <1>3, <1>5, <1>6, <1>7, <1>8 DEF StoreInv

-----------------------------------------------------------------------------
(* The steps of a process that publish and write nothing.                  *)

(* Moving on within a put, the name and the directory staying as they are. *)
LEMMA LocalStep ==
    ASSUME StoreInv, NEW p \in Procs, Running(proc[p]), NEW r \in Stores, Local(p, r),
           Running(r), r.pid = proc[p].pid, r.tmp = proc[p].tmp,
           Staged(r, object, temp, inode), Chunking(r, DOMAIN object)
    PROVE  StoreInv'
  BY QuietStep DEF Local

(* Returning an error.                                                     *)
LEMMA ReturnStep ==
    ASSUME StoreInv, NEW p \in Procs, Running(proc[p]),
           NEW result \in {"SecurityPolicy", "PackageCorrupt", "TargetConflict",
                           "OperationFailed"},
           Return(p, result)
    PROVE  StoreInv'
  <1> DEFINE r == [proc[p] EXCEPT !.pc = "ended", !.result = result, !.tmp = NoTemp]
  <1>1. proc[p] \in Stores /\ Chunking(proc[p], DOMAIN object)
    BY DEF StoreInv
  <1>2. /\ r \in Stores /\ r.pc = "ended" /\ r.tmp = NoTemp
        /\ r.file = proc[p].file /\ r.total = proc[p].total /\ r.seen = proc[p].seen
    BY <1>1 DEF Stores, TempName
  <1>3. /\ Become(p, r) /\ temp' = Dropped(p) /\ receipts' = receipts
        /\ UNCHANGED <<object, inode, crashes, faults, left>>
    BY DEF Return
  <1> HIDE DEF r
  <1>4. Staged(r, object, temp', inode) /\ ~Running(r)
    BY <1>2 DEF Staged, Holds, Running
  <1>5. Chunking(r, DOMAIN object)
    BY <1>1, <1>2, ChunkingGoesOn
  <1> QED
    BY <1>2, <1>3, <1>4, <1>5, QuietStep

(* What store_file has after a put: one more chunk, or a complete file.    *)
LEMMA StoredFacts ==
    ASSUME StoreInv, NEW p \in Procs, proc[p].pc \in Putting,
           proc[p].put.of \in DOMAIN object
    PROVE  /\ Stored(p) \in Stores
           /\ Stored(p).tmp = NoTemp /\ Stored(p).pid = proc[p].pid
           /\ Stored(p).pc \in {"chunk", "manifest", "ended"}
           /\ Chunking(Stored(p), DOMAIN object)
           /\ Stored(p).result = "ok" => /\ proc[p].put.of = ManifestOf(proc[p].file)
                                         /\ Complete(proc[p])
  <1> DEFINE put == proc[p].put.of
             r == [proc[p] EXCEPT !.put = NoPut, !.tmp = NoTemp, !.tries = 0]
  <1>1. /\ proc[p] \in Stores /\ Chunking(proc[p], DOMAIN object)
        /\ proc[p].result = "none"
    BY DEF StoreInv, Chunking, Running, Putting
  <1>2. NoPut \in [of : Content, known : BOOLEAN]
    BY EmptySeq DEF NoPut, Partial, Content, Bytes
  <1>3. /\ r \in Stores /\ r.tmp = NoTemp /\ r.pid = proc[p].pid /\ r.result = "none"
        /\ r.file = proc[p].file /\ r.total = proc[p].total /\ r.seen = proc[p].seen
    BY <1>1, <1>2 DEF Stores, TempName
  <1>4. /\ r.total <= Len(r.file) /\ r.total <= MaxFile
        /\ \A b \in r.seen : ChunkOf(b) \in DOMAIN object
    BY <1>1, <1>3 DEF Chunking
  <1> HIDE DEF r
  <1>5. CASE put = ManifestOf(proc[p].file) /\ Complete(proc[p])
    <2>1. Stored(p) = [r EXCEPT !.pc = "ended", !.result = "ok"]
      BY <1>5 DEF Stored, ManifestOf, r
    <2> DEFINE s == [r EXCEPT !.pc = "ended", !.result = "ok"]
    <2>2. /\ s \in Stores /\ s.pc = "ended" /\ s.tmp = NoTemp /\ s.pid = proc[p].pid
          /\ s.file = r.file /\ s.total = r.total /\ s.seen = r.seen
      BY <1>3 DEF Stores
    <2> HIDE DEF s
    <2>3. Chunking(s, DOMAIN object)
      BY <1>4, <2>2 DEF Chunking, Running, Putting
    <2> QED
      BY <1>5, <2>1, <2>2, <2>3 DEF s
  <1>6. ASSUME NEW k \in Nat, Read(proc[p], k), NextPiece(proc[p], k)
        PROVE  /\ Stored(p) \in Stores
               /\ Stored(p).tmp = NoTemp /\ Stored(p).pid = proc[p].pid
               /\ Stored(p).pc \in {"chunk", "manifest", "ended"}
               /\ Chunking(Stored(p), DOMAIN object)
               /\ Stored(p).result # "ok"
    <2> DEFINE b == put.of
               pc == IF Len(b) < Chunk THEN "manifest" ELSE "chunk"
               s == [r EXCEPT !.seen = @ \cup {b}, !.pc = pc]
    <2>1. put = ChunkOf(PieceAt(proc[p].file, k)) /\ put \in Content
      BY <1>1, <1>6 DEF NextPiece, Stores
    <2>2. put.kind = "chunk" /\ b = PieceAt(proc[p].file, k) /\ put = ChunkOf(b) /\ b \in Bytes
      BY <2>1 DEF ChunkOf, Content
    <2>3. Stored(p) = s
      BY <2>2 DEF Stored, r
    <2>4. pc \in {"manifest", "chunk"}
      OBVIOUS
    <2>5. /\ s \in Stores /\ s.pc = pc /\ s.tmp = NoTemp /\ s.pid = proc[p].pid
          /\ s.file = r.file /\ s.total = r.total /\ s.seen = r.seen \cup {b}
          /\ s.result = "none"
      BY <1>3, <2>2, <2>4 DEF Stores
    <2>6. /\ Len(b) < Chunk => Complete(s)
          /\ Len(b) >= Chunk => s.total = (k + 1) * Chunk /\ Read(s, k + 1)
      <3> HIDE DEF s
      <3>1. /\ r.total = k * Chunk + Len(b) /\ Len(b) <= Chunk
            /\ Len(b) < Chunk => r.total = Len(r.file)
        BY <1>3, <1>6 DEF NextPiece
      <3>2. Read(r, k) /\ b = PieceAt(r.file, k)
        BY <1>3, <1>6, <2>2 DEF Read
      <3> QED
        BY <1>3, <2>2, <2>5, <3>1, <3>2, PieceStored
    <2>7. Len(b) \in Nat /\ Chunk \in Nat
      BY <2>2, Positions DEF Bytes
    <2> HIDE DEF s
    <2>8. s.pc = "manifest" => Complete(s)
      BY <2>5, <2>6
    <2>9. s.pc = "chunk" => \E j \in Nat : s.total = j * Chunk /\ Read(s, j)
      <3> SUFFICES ASSUME s.pc = "chunk" PROVE \E j \in Nat : s.total = j * Chunk /\ Read(s, j)
        OBVIOUS
      <3>1. Len(b) >= Chunk
        BY <2>5, <2>7
      <3> WITNESS k + 1 \in Nat
      <3> QED
        BY <2>6, <3>1
    <2>10. \A c \in s.seen : ChunkOf(c) \in DOMAIN object
      BY <1>4, <2>2, <2>5
    <2>11. Chunking(s, DOMAIN object)
      BY <1>4, <2>4, <2>5, <2>8, <2>9, <2>10 DEF Chunking, Putting
    <2> QED
      BY <2>3, <2>4, <2>5, <2>11
  <1>7. \/ put = ManifestOf(proc[p].file) /\ Complete(proc[p])
        \/ \E k \in Nat : Read(proc[p], k) /\ NextPiece(proc[p], k)
    BY <1>1 DEF Chunking
  <1> QED
    BY <1>5, <1>6, <1>7

(* The put has returned.                                                   *)
LEMMA PutStep ==
    ASSUME StoreInv, NEW p \in Procs, proc[p].pc \in Putting,
           proc[p].put.of \in DOMAIN object, Put(p),
           UNCHANGED <<object, inode, crashes, faults, left>>,
           temp' = Dropped(p) \/ (temp' = temp /\ proc[p].tmp = NoTemp)
    PROVE  StoreInv'
  <1> DEFINE r == Stored(p)
  <1>1. /\ r \in Stores /\ r.tmp = NoTemp /\ r.pid = proc[p].pid
        /\ r.pc \in {"chunk", "manifest", "ended"} /\ Chunking(r, DOMAIN object)
        /\ r.result = "ok" => Complete(proc[p])
    BY StoredFacts
  <1>2. Become(p, r) /\ receipts' = IF r.result = "ok" THEN receipts \cup {proc[p].file}
                                    ELSE receipts
    BY DEF Put
  <1> HIDE DEF r
  <1>3. Staged(r, object, temp', inode)
    BY <1>1 DEF Staged, Holds
  <1>4. r.result = "ok" => Len(proc[p].file) <= MaxFile
    BY <1>1 DEF Complete, StoreInv, Chunking
  <1>5. Running(proc[p])
    BY DEF Running, Putting
  <1> QED
    BY <1>1, <1>2, <1>3, <1>4, <1>5, QuietStep

(* A chunk that was read: it ends the call, is known already, or is put.   *)
LEMMA ReadChunkKeeps ==
    ASSUME StoreInv, NEW p \in Procs, ReadChunk(p)
    PROVE  StoreInv'
  <1> DEFINE bytes == Filled(p)
             total == proc[p].total + Len(bytes)
             r == [proc[p] EXCEPT !.total = total]
  <1>1. /\ proc[p] \in Stores /\ proc[p].pc = "chunk" /\ Running(proc[p])
        /\ Chunking(proc[p], DOMAIN object) /\ Staged(proc[p], object, temp, inode)
        /\ proc[p].result = "none" /\ proc[p].tmp = NoTemp
    BY DEF StoreInv, ReadChunk, Running, Chunking, Staged, Holds
  <1>2. PICK k \in Nat : proc[p].total = k * Chunk /\ Read(proc[p], k)
    BY <1>1 DEF Chunking
  <1>3. /\ proc[p].total \in Nat /\ MaxFile \in Nat /\ Len(proc[p].file) \in Nat
        /\ proc[p].total <= MaxFile /\ proc[p].total <= Len(proc[p].file)
        /\ \A b \in proc[p].seen : ChunkOf(b) \in DOMAIN object
    BY <1>1, StoreAssumption DEF Chunking, Stores
  <1>4. CASE Return(p, "SecurityPolicy")
    BY <1>1, <1>4, ReturnStep
  <1>5. ASSUME proc[p].total = Len(proc[p].file),
               Local(p, [proc[p] EXCEPT !.pc = "manifest"])
        PROVE  StoreInv'
    <2> DEFINE s == [proc[p] EXCEPT !.pc = "manifest"]
    <2>1. /\ s \in Stores /\ s.pc = "manifest" /\ s.pid = proc[p].pid /\ s.tmp = NoTemp
          /\ s.file = proc[p].file /\ s.total = proc[p].total /\ s.seen = proc[p].seen
          /\ s.result = "none" /\ Local(p, s)
      BY <1>1, <1>5 DEF Stores
    <2> HIDE DEF s
    <2>2. Complete(s)
      BY <1>1, <1>2, <1>5, <2>1, EndOfFile DEF Complete
    <2>3. Chunking(s, DOMAIN object) /\ Staged(s, object, temp, inode) /\ Running(s)
      BY <1>3, <2>1, <2>2 DEF Chunking, Staged, Holds, Running, Putting
    <2> QED
      BY <1>1, <2>1, <2>3, LocalStep
  <1>6. ASSUME proc[p].total # MaxFile, bytes # <<>>, total <= MaxFile
        PROVE  /\ bytes \in Bytes /\ bytes = PieceAt(proc[p].file, k)
               /\ k * Chunk < Len(proc[p].file) /\ Len(bytes) \in Nat /\ Len(bytes) <= Chunk
               /\ total \in Nat /\ total <= Len(proc[p].file)
               /\ Len(bytes) < Chunk => total = Len(proc[p].file)
               /\ r \in Stores /\ r.pc = "chunk" /\ r.pid = proc[p].pid /\ r.tmp = NoTemp
               /\ r.file = proc[p].file /\ r.total = total /\ r.seen = proc[p].seen
               /\ r.result = "none"
    <2>1. proc[p].total < MaxFile
      BY <1>3, <1>6
    <2>2. /\ bytes \in Bytes /\ bytes = PieceAt(proc[p].file, k)
          /\ k * Chunk < Len(proc[p].file) /\ Len(bytes) <= Chunk
          /\ total <= Len(proc[p].file)
          /\ Len(bytes) < Chunk => total = Len(proc[p].file)
      BY <1>1, <1>2, <1>3, <1>6, <2>1, FilledIsNext
    <2>3. Len(bytes) \in Nat
      BY <2>2 DEF Bytes
    <2>4. total \in Nat
      BY <1>3, <2>3
    <2> HIDE DEF total
    <2>5. /\ r \in Stores /\ r.pc = "chunk" /\ r.pid = proc[p].pid /\ r.tmp = NoTemp
          /\ r.file = proc[p].file /\ r.total = total /\ r.seen = proc[p].seen
          /\ r.result = "none"
      BY <1>1, <2>4 DEF Stores
    <2> QED
      BY <2>2, <2>3, <2>4, <2>5
  <1>7. ASSUME proc[p].total # MaxFile, bytes # <<>>, total <= MaxFile, bytes \in proc[p].seen,
               Local(p, [r EXCEPT !.pc = IF Len(bytes) < Chunk THEN "manifest" ELSE "chunk"])
        PROVE  StoreInv'
    <2> DEFINE pc == IF Len(bytes) < Chunk THEN "manifest" ELSE "chunk"
               s == [r EXCEPT !.pc = pc]
    <2>1. pc \in {"manifest", "chunk"}
      OBVIOUS
    <2>2. r \in Stores /\ r.total = total
      BY <1>6, <1>7
    <2>3. /\ s \in Stores /\ s.pc = pc /\ s.pid = r.pid /\ s.tmp = r.tmp
          /\ s.file = r.file /\ s.total = r.total /\ s.seen = r.seen /\ s.result = r.result
      <3> HIDE DEF r, pc
      <3> QED
        BY <2>1, <2>2 DEF Stores
    <2>4. Local(p, s)
      BY <1>7
    <2>5. Read(r, k)
      BY <1>2, <1>6, <1>7 DEF Read
    <2>6. /\ Len(bytes) < Chunk => Complete(s)
          /\ Len(bytes) >= Chunk => s.total = (k + 1) * Chunk /\ Read(s, k + 1)
      <3> HIDE DEF s, r
      <3>1. s.seen = r.seen \cup {bytes} /\ r.total = k * Chunk + Len(bytes)
        BY <1>2, <1>6, <1>7, <2>3
      <3> HIDE DEF bytes, total
      <3> QED
        BY <1>6, <1>7, <2>2, <2>3, <2>5, <3>1, PieceStored
    <2>7. /\ s.tmp = NoTemp /\ s.pid = proc[p].pid /\ s.result = "none" /\ s.total = total
          /\ s.seen = proc[p].seen /\ s.file = proc[p].file
          /\ s.total <= Len(s.file) /\ s.total <= MaxFile
          /\ Len(bytes) \in Nat /\ Chunk \in Nat
      BY <1>6, <1>7, <2>3, Positions
    <2> HIDE DEF s, r, bytes, total
    <2>8. s.pc = "chunk" => \E j \in Nat : s.total = j * Chunk /\ Read(s, j)
      <3> SUFFICES ASSUME s.pc = "chunk" PROVE \E j \in Nat : s.total = j * Chunk /\ Read(s, j)
        OBVIOUS
      <3>1. Len(bytes) >= Chunk
        BY <2>3, <2>7
      <3> WITNESS k + 1 \in Nat
      <3> QED
        BY <2>6, <3>1
    <2>9. s.pc = "manifest" => Complete(s)
      BY <2>3, <2>6
    <2>10. Chunking(s, DOMAIN object) /\ Staged(s, object, temp, inode) /\ Running(s)
      BY <1>3, <2>1, <2>3, <2>7, <2>8, <2>9 DEF Chunking, Staged, Holds, Running, Putting
    <2> QED
      BY <1>1, <2>3, <2>4, <2>7, <2>10, LocalStep
  <1>8. ASSUME proc[p].total # MaxFile, bytes # <<>>, total <= MaxFile,
               Local(p, [r EXCEPT !.pc = "known", !.put = [of |-> ChunkOf(bytes), known |-> TRUE]])
        PROVE  StoreInv'
    <2> DEFINE put == [of |-> ChunkOf(bytes), known |-> TRUE]
               s == [r EXCEPT !.pc = "known", !.put = put]
    <2>1. put \in [of : Content, known : BOOLEAN]
      BY <1>6, <1>8 DEF ChunkOf, Content
    <2>2. r \in Stores /\ r.total = total /\ Local(p, s)
      BY <1>6, <1>8
    <2>3. /\ s \in Stores /\ s.pc = "known" /\ s.pid = r.pid /\ s.tmp = r.tmp /\ s.put = put
          /\ s.file = r.file /\ s.total = r.total /\ s.seen = r.seen /\ s.result = r.result
      <3> HIDE DEF r, put
      <3> QED
        BY <2>1, <2>2 DEF Stores
    <2>4. s.put.of = ChunkOf(bytes) /\ s.put.of.of = bytes
      BY <2>3 DEF ChunkOf
    <2>5. /\ s.tmp = NoTemp /\ s.pid = proc[p].pid /\ s.result = "none" /\ s.total = total
          /\ s.seen = proc[p].seen /\ s.file = proc[p].file
          /\ s.total <= Len(s.file) /\ s.total <= MaxFile
          /\ s.total = k * Chunk + Len(bytes)
      BY <1>2, <1>6, <1>8, <2>3
    <2> HIDE DEF s, r, bytes, total, put
    <2>6. Read(s, k) /\ NextPiece(s, k)
      BY <1>2, <1>6, <1>8, <2>4, <2>5 DEF Read, NextPiece, bytes, total
    <2>7. Chunking(s, DOMAIN object) /\ Staged(s, object, temp, inode) /\ Running(s)
      BY <1>3, <2>3, <2>5, <2>6 DEF Chunking, Staged, Holds, Running, Putting
    <2> QED
      BY <1>1, <2>2, <2>3, <2>5, <2>7, LocalStep
  <1>9. proc[p].total = MaxFile /\ Len(proc[p].file) <= MaxFile => proc[p].total = Len(proc[p].file)
    BY <1>3
  <1>10. proc[p].total # MaxFile /\ bytes = <<>> => proc[p].total = Len(proc[p].file)
    BY <1>1, <1>2, <1>3, FilledIsNext
  <1>11. CASE proc[p].total = MaxFile
    <2>1. CASE Len(proc[p].file) > MaxFile
      <3>1. ~(Len(proc[p].file) <= MaxFile)
        BY <1>3, <2>1
      <3> HIDE DEF r, bytes, total
      <3>2. Return(p, "SecurityPolicy")
        BY <1>11, <2>1, <3>1 DEF ReadChunk
      <3> QED
        BY <1>4, <3>2
    <2>2. CASE Len(proc[p].file) <= MaxFile
      <3>1. ~(Len(proc[p].file) > MaxFile)
        BY <1>3, <2>2
      <3>2. Local(p, [proc[p] EXCEPT !.pc = "manifest"])
        BY <1>11, <2>2, <3>1 DEF ReadChunk
      <3> QED
        BY <1>5, <1>9, <1>11, <2>2, <3>2
    <2> QED
      BY <1>3, <2>1, <2>2
  <1>12. CASE proc[p].total # MaxFile /\ bytes = <<>>
    BY <1>5, <1>10, <1>12 DEF ReadChunk
  <1>13. proc[p].total # MaxFile => total \in Nat
    <2> SUFFICES ASSUME proc[p].total # MaxFile PROVE total \in Nat
      OBVIOUS
    <2>1. bytes \in Bytes
      BY <1>1, <1>2, <1>3, FilledIsNext
    <2>2. Len(bytes) \in Nat
      BY <2>1 DEF Bytes
    <2> QED
      BY <1>3, <2>2
  <1>14. CASE proc[p].total # MaxFile /\ bytes # <<>> /\ total > MaxFile
    <2>1. ~(total <= MaxFile)
      BY <1>3, <1>13, <1>14
    <2>2. Return(p, "SecurityPolicy")
      BY <1>14, <2>1 DEF ReadChunk
    <2> QED
      BY <1>4, <2>2
  <1>15. CASE proc[p].total # MaxFile /\ bytes # <<>> /\ total <= MaxFile
    <2>1. \/ Return(p, "SecurityPolicy")
          \/ bytes \in proc[p].seen
             /\ Local(p, [r EXCEPT !.pc = IF Len(bytes) < Chunk THEN "manifest" ELSE "chunk"])
          \/ Local(p, [r EXCEPT !.pc = "known", !.put = [of |-> ChunkOf(bytes), known |-> TRUE]])
      BY <1>15 DEF ReadChunk, PutKnown
    <2> QED
      BY <1>4, <1>7, <1>8, <1>15, <2>1
  <1> QED
    BY <1>3, <1>11, <1>12, <1>13, <1>14, <1>15

(* The manifest lists every byte of the file.                              *)
LEMMA WriteManifestKeeps ==
    ASSUME StoreInv, NEW p \in Procs, WriteManifest(p)
    PROVE  StoreInv'
  <1> DEFINE f == proc[p].file
             put == [of |-> ManifestOf(f), known |-> TRUE]
             s == [proc[p] EXCEPT !.pc = "known", !.put = put]
  <1>1. /\ proc[p] \in Stores /\ proc[p].pc = "manifest" /\ Running(proc[p])
        /\ Chunking(proc[p], DOMAIN object) /\ Complete(proc[p])
        /\ proc[p].result = "none" /\ proc[p].tmp = NoTemp
    BY DEF StoreInv, WriteManifest, Running, Chunking, Staged, Holds
  <1>2. f \in Seq(Nat) /\ SubSeq(f, 1, Len(f)) = f
    BY <1>1, StoreAssumption, SubSeqFull DEF Stores
  <1>3. Local(p, s) \/ Return(p, "SecurityPolicy")
    BY <1>1, <1>2 DEF WriteManifest, Complete
  <1>4. put \in [of : Content, known : BOOLEAN] /\ put.of = ManifestOf(f)
    BY <1>2 DEF ManifestOf, Content, Bytes
  <1> HIDE DEF put
  <1>5. /\ s \in Stores /\ s.pc = "known" /\ s.pid = proc[p].pid /\ s.tmp = NoTemp
        /\ s.file = f /\ s.total = proc[p].total /\ s.seen = proc[p].seen
        /\ s.result = "none" /\ s.put = put
    BY <1>1, <1>4 DEF Stores
  <1> HIDE DEF s
  <1>6. Complete(s) /\ s.put.of = ManifestOf(s.file)
    BY <1>1, <1>4, <1>5 DEF Complete
  <1>7. Chunking(s, DOMAIN object) /\ Staged(s, object, temp, inode) /\ Running(s)
    BY <1>1, <1>5, <1>6 DEF Chunking, Staged, Holds, Running, Putting
  <1>8. CASE Local(p, s)
    BY <1>1, <1>5, <1>7, <1>8, LocalStep
  <1>9. CASE Return(p, "SecurityPolicy")
    BY <1>1, <1>9, ReturnStep
  <1> QED
    BY <1>3, <1>8, <1>9

(* Going on with the put: the process moves to another step of it.         *)
LEMMA PutGoesOn ==
    ASSUME StoreInv, NEW p \in Procs, proc[p].pc \in Putting,
           NEW s \in Stores, Local(p, s), s.pc \in Putting \ {"unlink"},
           s.pid = proc[p].pid, s.tmp = proc[p].tmp, s.put = proc[p].put,
           s.result = proc[p].result, s.file = proc[p].file, s.total = proc[p].total,
           s.seen = proc[p].seen, Staged(s, object, temp, inode)
    PROVE  StoreInv'
  <1>1. Running(proc[p]) /\ Running(s) /\ Chunking(proc[p], DOMAIN object)
    BY DEF StoreInv, Running, Putting
  <1>2. Chunking(s, DOMAIN object)
    BY <1>1, ChunkingGoesOn
  <1> QED
    BY <1>1, <1>2, LocalStep

LEMMA FindExistingKeeps ==
    ASSUME StoreInv, NEW p \in Procs, FindExisting(p)
    PROVE  StoreInv'
  <1>1. /\ proc[p] \in Stores /\ proc[p].pc = "known" /\ proc[p].pc \in Putting
        /\ Running(proc[p]) /\ proc[p].tmp = NoTemp
    BY DEF StoreInv, FindExisting, Running, Staged, Holds, Putting
  <1>2. CASE Return(p, "PackageCorrupt")
    BY <1>1, <1>2, ReturnStep
  <1>3. CASE /\ proc[p].put.of \in DOMAIN object /\ Put(p)
             /\ UNCHANGED <<object, temp, inode, crashes, faults, left>>
    BY <1>1, <1>3, PutStep
  <1>4. CASE Local(p, [proc[p] EXCEPT !.pc = "create", !.tries = 0])
    <2> DEFINE s == [proc[p] EXCEPT !.pc = "create", !.tries = 0]
    <2>1. /\ s \in Stores /\ s.pc = "create" /\ s.pid = proc[p].pid /\ s.tmp = NoTemp
          /\ s.file = proc[p].file /\ s.total = proc[p].total /\ s.seen = proc[p].seen
          /\ s.result = proc[p].result /\ s.put = proc[p].put /\ Local(p, s)
      BY <1>1, <1>4 DEF Stores
    <2> HIDE DEF s
    <2>2. Staged(s, object, temp, inode) /\ s.pc \in Putting \ {"unlink"}
      BY <2>1 DEF Staged, Holds, Putting
    <2> QED
      BY <1>1, <2>1, <2>2, PutGoesOn
  <1> QED
    BY <1>2, <1>3, <1>4 DEF FindExisting, Exists, Verified

LEMMA NoTempNameKeeps ==
    ASSUME StoreInv, NEW p \in Procs, NoTempName(p)
    PROVE  StoreInv'
  <1>1. Running(proc[p]) /\ Return(p, "TargetConflict")
    BY DEF NoTempName, Running
  <1> QED
    BY <1>1, ReturnStep

LEMMA CheckCommittedKeeps ==
    ASSUME StoreInv, NEW p \in Procs, CheckCommitted(p)
    PROVE  StoreInv'
  <1>1. /\ proc[p] \in Stores /\ proc[p].pc = "commit" /\ proc[p].pc \in Putting
        /\ Running(proc[p]) /\ Staged(proc[p], object, temp, inode)
    BY DEF StoreInv, CheckCommitted, Running, Putting
  <1>2. CASE Return(p, "PackageCorrupt")
    BY <1>1, <1>2, ReturnStep
  <1>3. CASE /\ proc[p].put.of \in DOMAIN object /\ Put(p) /\ temp' = Dropped(p)
             /\ UNCHANGED <<object, inode, crashes, faults, left>>
    BY <1>1, <1>3, PutStep
  <1>4. CASE Local(p, [proc[p] EXCEPT !.pc = "link"])
    <2> DEFINE s == [proc[p] EXCEPT !.pc = "link"]
    <2>1. /\ s \in Stores /\ s.pc = "link" /\ s.pid = proc[p].pid /\ s.tmp = proc[p].tmp
          /\ s.file = proc[p].file /\ s.total = proc[p].total /\ s.seen = proc[p].seen
          /\ s.result = proc[p].result /\ s.put = proc[p].put /\ Local(p, s)
      BY <1>1, <1>4 DEF Stores
    <2> HIDE DEF s
    <2>2. Staged(s, object, temp, inode) /\ s.pc \in Putting \ {"unlink"}
      BY <1>1, <2>1 DEF Staged, Holds, Putting
    <2> QED
      BY <1>1, <2>1, <2>2, PutGoesOn
  <1> QED
    BY <1>2, <1>3, <1>4 DEF CheckCommitted, Exists, Verified

LEMMA UnlinkKeeps ==
    ASSUME StoreInv, NEW p \in Procs, Unlink(p)
    PROVE  StoreInv'
  <1>1. proc[p].pc \in Putting /\ proc[p].put.of \in DOMAIN object
    BY DEF StoreInv, Unlink, Chunking, Putting
  <1> QED
    BY <1>1, PutStep DEF Unlink

LEMMA UnlinkFailsKeeps ==
    ASSUME StoreInv, NEW p \in Procs, UnlinkFails(p)
    PROVE  StoreInv'
  <1>1. Running(proc[p]) /\ Return(p, "OperationFailed")
    BY DEF UnlinkFails, Running
  <1> QED
    BY <1>1, ReturnStep

(* A failing system call ends the put through the guard.                   *)
LEMMA StepFailsKeeps ==
    ASSUME StoreInv, NEW p \in Procs, StepFails(p)
    PROVE  StoreInv'
  <1> DEFINE s == [proc[p] EXCEPT !.pc = "ended", !.result = "OperationFailed", !.tmp = NoTemp]
  <1>1. /\ proc[p] \in Stores /\ Running(proc[p]) /\ Chunking(proc[p], DOMAIN object)
    BY DEF StoreInv, StepFails, Running
  <1>2. /\ s \in Stores /\ s.pc = "ended" /\ s.tmp = NoTemp
        /\ s.file = proc[p].file /\ s.total = proc[p].total /\ s.seen = proc[p].seen
    BY <1>1 DEF Stores, TempName
  <1>3. /\ Become(p, s) /\ temp' = Dropped(p) /\ faults' = faults + 1
        /\ UNCHANGED <<object, inode, receipts, crashes, left>>
    BY DEF StepFails
  <1> HIDE DEF s
  <1>4. Staged(s, object, temp', inode) /\ ~Running(s)
    BY <1>2 DEF Staged, Holds, Running
  <1>5. Chunking(s, DOMAIN object)
    BY <1>1, <1>2, ChunkingGoesOn
  <1> QED
    BY <1>1, <1>2, <1>3, <1>4, <1>5, QuietStep

-----------------------------------------------------------------------------
(* The steps that change the directory or an inode.                        *)

(* A name in the directory is not the name of nobody.                      *)
LEMMA NamesAreNotNoTemp ==
    ASSUME StoreInv
    PROVE  \A t \in DOMAIN temp : t # NoTemp
  BY StoreAssumption DEF StoreInv, Directory, NoTemp

(* create_new: a name that exists is left alone, a new one has a new inode. *)
LEMMA CreateTempKeeps ==
    ASSUME StoreInv, NEW p \in Procs, CreateTemp(p)
    PROVE  StoreInv'
  <1> DEFINE r == [proc[p] EXCEPT !.next = @ + 1, !.tries = @ + 1]
             t == NextTemp(p)
             s == [r EXCEPT !.pc = "write", !.tmp = t]
  <1>1. /\ proc[p] \in Stores /\ proc[p].pc = "create" /\ proc[p].pc \in Putting
        /\ Running(proc[p]) /\ proc[p].tmp = NoTemp /\ Chunking(proc[p], DOMAIN object)
        /\ UNCHANGED <<object, receipts, crashes, faults, left>>
    BY DEF StoreInv, CreateTemp, Running, Staged, Holds, Putting
  <1>2. /\ r \in Stores /\ r.pc = "create" /\ r.pid = proc[p].pid /\ r.tmp = NoTemp
        /\ r.file = proc[p].file /\ r.total = proc[p].total /\ r.seen = proc[p].seen
        /\ r.result = proc[p].result /\ r.put = proc[p].put
    <2>1. proc[p].next + 1 \in Nat /\ proc[p].tries + 1 \in Nat
      BY <1>1 DEF Stores
    <2> QED
      BY <1>1, <2>1 DEF Stores
  <1>3. t \in Pids \X Nat /\ t \in TempName /\ t[1] = proc[p].pid
    BY <1>1 DEF NextTemp, Stores, TempName
  <1> HIDE DEF r
  <1>4. CASE t \in DOMAIN temp
    <2>1. Local(p, r)
      BY <1>1, <1>4 DEF CreateTemp, Local, r
    <2>2. Staged(r, object, temp, inode) /\ r.pc \in Putting \ {"unlink"}
      BY <1>2 DEF Staged, Holds, Putting
    <2> QED
      BY <1>1, <1>2, <2>1, <2>2, PutGoesOn
  <1>5. CASE t \notin DOMAIN temp
    <2>1. /\ inode' = Append(inode, Partial) /\ temp' = Bind(temp, t, Len(inode) + 1)
          /\ Become(p, s)
      BY <1>5 DEF CreateTemp, r
    <2> HIDE DEF t
    <2>2. /\ s \in Stores /\ s.pc = "write" /\ s.pid = proc[p].pid /\ s.tmp = t
          /\ s.file = proc[p].file /\ s.total = proc[p].total /\ s.seen = proc[p].seen
          /\ s.result = proc[p].result /\ s.put = proc[p].put
      BY <1>2, <1>3 DEF Stores
    <2> HIDE DEF s
    <2>3. Directory /\ inode \in Seq(Content) /\ Partial \in Content
      BY EmptySeq DEF StoreInv, Directory, Partial, Content, Bytes
    <2>4. /\ inode' \in Seq(Content) /\ Len(inode) \in Nat
          /\ DOMAIN inode = 1..Len(inode) /\ DOMAIN inode' = 1..(Len(inode) + 1)
          /\ \A i \in DOMAIN inode : inode'[i] = inode[i]
      BY <2>1, <2>3
    <2>5. /\ DOMAIN temp' = DOMAIN temp \cup {t} /\ temp'[t] = Len(inode) + 1
          /\ \A u \in DOMAIN temp : temp'[u] = temp[u]
      BY <1>5, <2>1 DEF Bind
    <2>6. /\ \A u \in DOMAIN temp : temp[u] \in DOMAIN inode /\ temp[u] # Len(inode) + 1
          /\ \A c \in DOMAIN object : object[c] \in DOMAIN inode /\ object[c] # Len(inode) + 1
      BY <2>3, <2>4 DEF Directory
    <2>7. Directory'
      <3>1. DOMAIN inode \subseteq DOMAIN inode' /\ Len(inode) + 1 \in DOMAIN inode'
        BY <2>4
      <3>2. IsInjective(temp')
        BY <2>3, <2>5, <2>6 DEF Directory, IsInjective
      <3>3. \A u \in DOMAIN temp' : u \in Pids \X Nat /\ temp'[u] \in DOMAIN inode'
        BY <1>3, <2>3, <2>5, <3>1 DEF Directory
      <3> QED
        BY <1>1, <2>3, <2>4, <3>1, <3>2, <3>3 DEF Directory
    <2>8. Staged(s, object', temp', inode')
      BY <1>1, <1>3, <2>2, <2>5, <2>6 DEF Staged, Holds
    <2>9. Chunking(s, DOMAIN object')
      BY <1>1, <2>2, ChunkingGoesOn DEF Putting
    <2>10. ASSUME NEW q \in Procs, q # p PROVE Staged(proc[q], object', temp', inode')
      <3>1. Staged(proc[q], object, temp, inode)
        BY DEF StoreInv
      <3>2. proc[q].pc \in {"write", "commit", "link"} => Holds(proc[q])
        BY DEF Holds
      <3> QED
        BY <1>1, <2>4, <2>5, <2>6, <3>1, <3>2 DEF Staged
    <2>11. /\ (proc \in [Procs -> Stores])'
           /\ DistinctPids'
           /\ \A q \in Procs : /\ Staged(proc'[q], object', temp', inode')
                               /\ Chunking(proc'[q], DOMAIN object')
      BY <1>1, <2>1, <2>2, <2>8, <2>9, <2>10, ProcessesKept
    <2>12. ObjectsAreTheirContent'
      BY <1>1, <2>4, <2>6 DEF StoreInv, ObjectsAreTheirContent
    <2>13. NoLeftovers'
      <3> SUFFICES ASSUME NEW u \in DOMAIN temp', u \notin left'
                   PROVE  \E q \in Procs : Live(q)' /\ proc'[q].tmp = u
        BY DEF NoLeftovers
      <3>1. /\ proc'[p] = s /\ \A q \in Procs : q # p => proc'[q] = proc[q]
        BY <2>1 DEF StoreInv, Become
      <3>2. CASE u = t
        BY <2>2, <3>1, <3>2 DEF Live
      <3>3. CASE u # t
        <4>1. u \in DOMAIN temp /\ u # NoTemp
          BY <2>5, <3>3, NamesAreNotNoTemp
        <4>2. PICK q \in Procs : Live(q) /\ proc[q].tmp = u
          BY <1>1, <4>1 DEF StoreInv, NoLeftovers
        <4>3. q # p
          BY <1>1, <4>1, <4>2
        <4> QED
          BY <3>1, <4>2, <4>3 DEF Live
      <3> QED
        BY <3>2, <3>3
    <2>14. (receipts \subseteq Files)' /\ LimitHolds' /\ (crashes \in Nat /\ faults \in Nat)'
      BY <1>1 DEF StoreInv, LimitHolds
    <2> QED
      BY <2>7, <2>11, <2>12, <2>13, <2>14 DEF StoreInv
  <1> QED
    BY <1>4, <1>5

(* The process writes to its own inode, which is not published.            *)
LEMMA WriteTempKeeps ==
    ASSUME StoreInv, NEW p \in Procs, WriteTemp(p)
    PROVE  StoreInv'
  <1> DEFINE i == temp[proc[p].tmp]
             s == [proc[p] EXCEPT !.pc = "commit"]
  <1>1. /\ proc[p] \in Stores /\ proc[p].pc = "write" /\ Running(proc[p]) /\ Holds(proc[p])
        /\ Staged(proc[p], object, temp, inode) /\ Chunking(proc[p], DOMAIN object)
        /\ Directory
    BY DEF StoreInv, WriteTemp, Running, Holds
  <1>2. /\ proc[p].tmp \in DOMAIN temp /\ i \in DOMAIN inode
        /\ \A c \in DOMAIN object : object[c] # i
    BY <1>1 DEF Staged, Directory
  <1>3. /\ inode' = [inode EXCEPT ![i] = proc[p].put.of] /\ Become(p, s)
        /\ UNCHANGED <<object, temp, receipts, crashes, faults, left>>
    BY DEF WriteTemp
  <1>4. /\ s \in Stores /\ s.pc = "commit" /\ s.pid = proc[p].pid /\ s.tmp = proc[p].tmp
        /\ s.file = proc[p].file /\ s.total = proc[p].total /\ s.seen = proc[p].seen
        /\ s.result = proc[p].result /\ s.put = proc[p].put
    BY <1>1 DEF Stores
  <1> HIDE DEF s
  <1>5. /\ inode \in Seq(Content) /\ proc[p].put.of \in Content
        /\ inode' \in Seq(Content) /\ DOMAIN inode' = DOMAIN inode
        /\ inode'[i] = proc[p].put.of
        /\ \A j \in DOMAIN inode : j # i => inode'[j] = inode[j]
    <2>1. inode \in Seq(Content) /\ proc[p].put.of \in Content
      BY <1>1 DEF Directory, Stores
    <2>2. inode' \in Seq(Content)
      BY <1>2, <1>3, <2>1, ExceptSeq
    <2> QED
      BY <1>2, <1>3, <2>1, <2>2
  <1> HIDE DEF i
  <1>6. Directory'
    BY <1>1, <1>3, <1>5 DEF Directory
  <1>7. Staged(s, object', temp', inode')
    BY <1>1, <1>2, <1>3, <1>4, <1>5 DEF Staged, Holds, i
  <1>8. Chunking(s, DOMAIN object')
    BY <1>1, <1>3, <1>4, ChunkingGoesOn DEF Putting
  <1>9. ASSUME NEW q \in Procs, q # p PROVE Staged(proc[q], object', temp', inode')
    <2>1. Staged(proc[q], object, temp, inode)
      BY DEF StoreInv
    <2>2. CASE Holds(proc[q])
      <3>1. proc[q].tmp # proc[p].tmp /\ proc[q].tmp \in DOMAIN temp
        BY <1>1, <1>9, <2>1, <2>2, TempsDiffer DEF Staged
      <3>2. temp[proc[q].tmp] # i /\ temp[proc[q].tmp] \in DOMAIN inode
        BY <1>1, <1>2, <3>1 DEF Directory, IsInjective, i
      <3> QED
        BY <1>3, <1>5, <2>1, <3>2 DEF Staged
    <2>3. CASE ~Holds(proc[q])
      BY <1>3, <2>1, <2>3 DEF Staged, Holds
    <2> QED
      BY <2>2, <2>3
  <1>10. /\ (proc \in [Procs -> Stores])'
         /\ DistinctPids'
         /\ \A q \in Procs : /\ Staged(proc'[q], object', temp', inode')
                             /\ Chunking(proc'[q], DOMAIN object')
    BY <1>1, <1>3, <1>4, <1>7, <1>8, <1>9, ProcessesKept
  <1>11. ObjectsAreTheirContent'
    BY <1>1, <1>2, <1>3, <1>5 DEF StoreInv, ObjectsAreTheirContent, Directory
  <1>12. NoLeftovers'
    <2>1. /\ proc'[p] = s /\ \A q \in Procs : q # p => proc'[q] = proc[q]
      BY <1>3 DEF StoreInv, Become
    <2>2. \A q \in Procs : Live(q) => Live(q)' /\ proc'[q].tmp = proc[q].tmp
      BY <1>4, <2>1 DEF Live
    <2> QED
      BY <1>3, <2>2 DEF StoreInv, NoLeftovers
  <1>13. (receipts \subseteq Files)' /\ LimitHolds' /\ (crashes \in Nat /\ faults \in Nat)'
    BY <1>3 DEF StoreInv, LimitHolds
  <1> QED
    BY <1>6, <1>10, <1>11, <1>12, <1>13 DEF StoreInv

(* The hard link publishes an inode that holds the content and that no     *)
(* other process will write to.                                            *)
LEMMA LinkKeeps ==
    ASSUME StoreInv, NEW p \in Procs, Link(p)
    PROVE  StoreInv'
  <1> DEFINE i == temp[proc[p].tmp]
             c == proc[p].put.of
             s == [proc[p] EXCEPT !.pc = "unlink"]
  <1>1. /\ proc[p] \in Stores /\ proc[p].pc = "link" /\ proc[p].pc \in Putting
        /\ Running(proc[p]) /\ Holds(proc[p])
        /\ Staged(proc[p], object, temp, inode) /\ Chunking(proc[p], DOMAIN object)
        /\ Directory
    BY DEF StoreInv, Link, Running, Holds, Putting
  <1>2. CASE c \in DOMAIN object
    <2>1. \/ Return(p, "PackageCorrupt")
          \/ Put(p) /\ temp' = Dropped(p) /\ UNCHANGED <<object, inode, crashes, faults, left>>
      BY <1>2 DEF Link, Exists, Verified
    <2> QED
      BY <1>1, <1>2, <2>1, ReturnStep, PutStep
  <1>3. CASE c \notin DOMAIN object
    <2>1. /\ object' = Bind(object, c, i) /\ Become(p, s)
          /\ UNCHANGED <<temp, inode, receipts, crashes, faults, left>>
      BY <1>3 DEF Link, Exists
    <2>2. /\ s \in Stores /\ s.pc = "unlink" /\ s.pid = proc[p].pid /\ s.tmp = proc[p].tmp
          /\ s.file = proc[p].file /\ s.total = proc[p].total /\ s.seen = proc[p].seen
          /\ s.result = proc[p].result /\ s.put = proc[p].put
      BY <1>1 DEF Stores
    <2> HIDE DEF s
    <2>3. /\ proc[p].tmp \in DOMAIN temp /\ i \in DOMAIN inode /\ inode[i] = c
          /\ \A d \in DOMAIN object : object[d] # i
      BY <1>1 DEF Staged, Directory, Holds
    <2>4. /\ DOMAIN object' = DOMAIN object \cup {c} /\ object'[c] = i
          /\ \A d \in DOMAIN object : object'[d] = object[d]
      BY <1>3, <2>1 DEF Bind
    <2> HIDE DEF i, c
    <2>5. Directory'
      <3>1. IsInjective(object')
        BY <1>1, <2>3, <2>4 DEF Directory, IsInjective
      <3> QED
        BY <1>1, <2>1, <2>3, <2>4, <3>1 DEF Directory
    <2>6. Staged(s, object', temp', inode')
      BY <1>1, <2>1, <2>2 DEF Staged, Holds
    <2>7. Chunking(s, DOMAIN object')
      <3>1. s.put.of \in DOMAIN object'
        BY <2>2, <2>4 DEF c
      <3> QED
        BY <1>1, <2>2, <2>4, <3>1, ChunkingGoesOn DEF Putting
    <2>8. ASSUME NEW q \in Procs, q # p PROVE Staged(proc[q], object', temp', inode')
      <3>1. Staged(proc[q], object, temp, inode)
        BY DEF StoreInv
      <3>2. CASE Holds(proc[q])
        <4>1. proc[q].tmp # proc[p].tmp /\ proc[q].tmp \in DOMAIN temp
          BY <1>1, <2>8, <3>1, <3>2, TempsDiffer DEF Staged
        <4>2. temp[proc[q].tmp] # i
          BY <1>1, <2>3, <4>1 DEF Directory, IsInjective, i
        <4> QED
          BY <2>1, <2>4, <3>1, <4>2 DEF Staged
      <3>3. CASE ~Holds(proc[q])
        BY <3>1, <3>3 DEF Staged, Holds
      <3> QED
        BY <3>2, <3>3
    <2>9. /\ (proc \in [Procs -> Stores])'
          /\ DistinctPids'
          /\ \A q \in Procs : /\ Staged(proc'[q], object', temp', inode')
                              /\ Chunking(proc'[q], DOMAIN object')
      BY <1>1, <2>1, <2>2, <2>4, <2>6, <2>7, <2>8, ProcessesKept
    <2>10. ObjectsAreTheirContent'
      BY <2>1, <2>3, <2>4 DEF StoreInv, ObjectsAreTheirContent
    <2>11. NoLeftovers'
      <3>1. /\ proc'[p] = s /\ \A q \in Procs : q # p => proc'[q] = proc[q]
        BY <2>1 DEF StoreInv, Become
      <3>2. \A q \in Procs : Live(q) => Live(q)' /\ proc'[q].tmp = proc[q].tmp
        BY <2>2, <3>1 DEF Live
      <3> QED
        BY <2>1, <3>2 DEF StoreInv, NoLeftovers
    <2>12. (receipts \subseteq Files)' /\ LimitHolds' /\ (crashes \in Nat /\ faults \in Nat)'
      BY <2>1 DEF StoreInv, LimitHolds
    <2> QED
      BY <2>5, <2>9, <2>10, <2>11, <2>12 DEF StoreInv
  <1> QED
    BY <1>2, <1>3

-----------------------------------------------------------------------------
(* Faults.                                                                 *)

(* A process that is killed leaves its temporary file where it is.         *)
LEMMA CrashKeeps ==
    ASSUME StoreInv, NEW p \in Procs, Crash(p)
    PROVE  StoreInv'
  <1> DEFINE s == [proc[p] EXCEPT !.pc = "down"]
  <1>1. proc[p] \in Stores /\ Chunking(proc[p], DOMAIN object)
    BY DEF StoreInv
  <1>2. /\ s \in Stores /\ s.pc = "down"
        /\ s.file = proc[p].file /\ s.total = proc[p].total /\ s.seen = proc[p].seen
    BY <1>1 DEF Stores
  <1>3. /\ Become(p, s) /\ crashes' = crashes + 1
        /\ left' = left \cup (DOMAIN temp \cap {proc[p].tmp})
        /\ UNCHANGED <<object, temp, inode, receipts, faults>>
    BY DEF Crash
  <1> HIDE DEF s
  <1>4. Staged(s, object', temp', inode') /\ ~Running(s)
    BY <1>2 DEF Staged, Holds, Running
  <1>5. Chunking(s, DOMAIN object')
    BY <1>1, <1>2, <1>3, ChunkingGoesOn
  <1>6. \A q \in Procs : Staged(proc[q], object', temp', inode')
    BY <1>3 DEF StoreInv
  <1>7. /\ (proc \in [Procs -> Stores])'
        /\ DistinctPids'
        /\ \A q \in Procs : /\ Staged(proc'[q], object', temp', inode')
                            /\ Chunking(proc'[q], DOMAIN object')
    BY <1>2, <1>3, <1>4, <1>5, <1>6, ProcessesKept
  <1>8. NoLeftovers' /\ (crashes \in Nat /\ faults \in Nat)'
    <2>1. \A q \in Procs : q # p => proc'[q] = proc[q]
      BY <1>3 DEF StoreInv, Become
    <2>2. ASSUME NEW t \in DOMAIN temp, t \notin left'
          PROVE  \E q \in Procs : Live(q)' /\ proc'[q].tmp = t
      <3>1. t \notin left /\ t # proc[p].tmp
        BY <1>3, <2>2
      <3>2. PICK q \in Procs : Live(q) /\ proc[q].tmp = t
        BY <3>1 DEF StoreInv, NoLeftovers
      <3> QED
        BY <2>1, <3>1, <3>2 DEF Live
    <2>3. NoLeftovers'
      BY <1>3, <2>2 DEF NoLeftovers
    <2> QED
      BY <1>3, <2>3 DEF StoreInv
  <1>9. Directory' /\ ObjectsAreTheirContent' /\ LimitHolds' /\ (receipts \subseteq Files)'
    BY <1>3 DEF StoreInv, Directory, ObjectsAreTheirContent, LimitHolds
  <1> QED
    BY <1>7, <1>8, <1>9 DEF StoreInv

(* A record of a process that has just started.                            *)
LEMMA IdleFacts ==
    ASSUME NEW i \in Pids, NEW f \in Files, NEW names, NEW dir, NEW temps, NEW nodes
    PROVE  /\ Idle(i, f) \in Stores /\ Running(Idle(i, f))
           /\ Idle(i, f).pid = i /\ Idle(i, f).tmp = NoTemp
           /\ Staged(Idle(i, f), dir, temps, nodes) /\ Chunking(Idle(i, f), names)
  <1> DEFINE s == Idle(i, f)
  <1>1. NoPut \in [of : Content, known : BOOLEAN]
    BY EmptySeq DEF NoPut, Partial, Content, Bytes
  <1>2. /\ s.pc = "chunk" /\ s.pid = i /\ s.next = 0 /\ s.file = f /\ s.total = 0
        /\ s.seen = {} /\ s.put = NoPut /\ s.tmp = NoTemp /\ s.tries = 0 /\ s.result = "none"
    BY DEF Idle
  <1>3. s \in Stores
    BY <1>1 DEF Idle, Stores, TempName
  <1> HIDE DEF s
  <1>4. Len(f) \in Nat /\ MaxFile \in Nat
    BY StoreAssumption
  <1>5. s.total <= Len(s.file) /\ s.total <= MaxFile
    BY <1>2, <1>4
  <1>6. \E k \in Nat : s.total = k * Chunk /\ Read(s, k)
    <2> WITNESS 0 \in Nat
    <2>1. 0 * Chunk = 0
      BY StoreAssumption
    <2>2. Read(s, 0)
      BY DEF Read
    <2> QED
      BY <1>2, <2>1, <2>2
  <1>7. Chunking(s, names)
    BY <1>2, <1>5, <1>6 DEF Chunking, Putting
  <1>8. Running(s) /\ Staged(s, dir, temps, nodes)
    BY <1>2 DEF Running, Staged, Holds
  <1> QED
    BY <1>2, <1>3, <1>7, <1>8 DEF s

(* The new process has an identifier that no living one has.               *)
LEMMA RestartKeeps ==
    ASSUME StoreInv, NEW p \in Procs, Restart(p)
    PROVE  StoreInv'
  <1>1. proc \in [Procs -> Stores] /\ proc[p].pc = "down" /\ proc[p].file \in Files
    BY DEF StoreInv, Restart, Stores
  <1>2. PICK pid \in Pids \ {proc[q].pid : q \in {q \in Procs : Live(q)}} :
             Local(p, Idle(pid, proc[p].file))
    BY DEF Restart
  <1> DEFINE s == Idle(pid, proc[p].file)
  <1>3. /\ s \in Stores /\ Running(s) /\ s.pid = pid /\ s.tmp = NoTemp
        /\ Staged(s, object, temp, inode) /\ Chunking(s, DOMAIN object)
    BY <1>1, IdleFacts
  <1>4. /\ proc' = [proc EXCEPT ![p] = s]
        /\ UNCHANGED <<object, temp, inode, receipts, crashes, faults, left>>
    BY <1>2 DEF Local, Become
  <1> HIDE DEF s
  <1>5. /\ proc' \in [Procs -> Stores] /\ proc'[p] = s
        /\ \A q \in Procs : q # p => proc'[q] = proc[q]
    BY <1>1, <1>3, <1>4
  <1>6. \A q \in Procs : Running(proc[q]) => proc[q].pid # pid
    BY <1>2 DEF Live, Running
  <1>7. DistinctPids'
    BY <1>3, <1>5, <1>6 DEF StoreInv, DistinctPids
  <1>8. \A q \in Procs : /\ Staged(proc'[q], object', temp', inode')
                         /\ Chunking(proc'[q], DOMAIN object')
    BY <1>3, <1>4, <1>5 DEF StoreInv
  <1>9. NoLeftovers'
    <2>1. \A q \in Procs : Live(q) => q # p /\ Live(q)' /\ proc'[q].tmp = proc[q].tmp
      BY <1>1, <1>5 DEF Live
    <2> QED
      BY <1>4, <2>1 DEF StoreInv, NoLeftovers
  <1>10. /\ Directory' /\ ObjectsAreTheirContent' /\ LimitHolds'
         /\ (receipts \subseteq Files)' /\ (crashes \in Nat /\ faults \in Nat)'
    BY <1>4 DEF StoreInv, Directory, ObjectsAreTheirContent, LimitHolds
  <1> QED
    BY <1>5, <1>7, <1>8, <1>9, <1>10 DEF StoreInv

(* Damage reaches only published inodes, never one that is being staged.   *)
LEMMA DamageKeeps ==
    ASSUME StoreInv, NEW c \in DOMAIN object, Damage(c)
    PROVE  StoreInv'
  <1> DEFINE i == object[c]
  <1>1. /\ inode' = [inode EXCEPT ![i] = Rubbish] /\ faults' = faults + 1
        /\ UNCHANGED <<object, temp, proc, receipts, crashes, left>>
    BY DEF Damage
  <1>2. Directory /\ i \in DOMAIN inode /\ inode \in Seq(Content) /\ Rubbish \in Content
    BY EmptySeq DEF StoreInv, Directory, Rubbish, Content, Bytes
  <1>3. /\ inode' \in Seq(Content) /\ DOMAIN inode' = DOMAIN inode /\ inode'[i] = Rubbish
        /\ \A j \in DOMAIN inode : j # i => inode'[j] = inode[j]
    <2>1. inode' \in Seq(Content)
      BY <1>1, <1>2, ExceptSeq
    <2> QED
      BY <1>1, <1>2, <2>1
  <1> HIDE DEF i
  <1>4. Directory'
    BY <1>1, <1>2, <1>3 DEF Directory
  <1>5. ASSUME NEW q \in Procs
        PROVE  /\ Staged(proc'[q], object', temp', inode')
               /\ Chunking(proc'[q], DOMAIN object')
    <2>1. Staged(proc[q], object, temp, inode) /\ Chunking(proc[q], DOMAIN object)
      BY DEF StoreInv
    <2>2. proc[q].pc \in {"commit", "link"} => inode'[temp[proc[q].tmp]] = proc[q].put.of
      <3> SUFFICES ASSUME proc[q].pc \in {"commit", "link"}
                   PROVE  inode'[temp[proc[q].tmp]] = proc[q].put.of
        OBVIOUS
      <3>1. proc[q].tmp \in DOMAIN temp /\ temp[proc[q].tmp] # i
        BY <2>1 DEF Staged, Holds, i
      <3> QED
        BY <1>2, <1>3, <2>1, <3>1 DEF Staged, Directory
    <2> QED
      BY <1>1, <2>1, <2>2 DEF Staged
  <1>6. ObjectsAreTheirContent'
    <2>1. \A d \in DOMAIN object : inode'[object[d]] \in {d, Rubbish}
      BY <1>2, <1>3 DEF StoreInv, ObjectsAreTheirContent, Directory
    <2>2. faults' # 0
      BY <1>1 DEF StoreInv
    <2> QED
      BY <1>1, <2>1, <2>2 DEF ObjectsAreTheirContent
  <1>7. NoLeftovers' /\ (crashes \in Nat /\ faults \in Nat)'
    BY <1>1 DEF StoreInv, NoLeftovers, Live
  <1>8. LimitHolds' /\ (receipts \subseteq Files)' /\ DistinctPids' /\ (proc \in [Procs -> Stores])'
    BY <1>1 DEF StoreInv, LimitHolds, DistinctPids
  <1> QED
    BY <1>4, <1>5, <1>6, <1>7, <1>8 DEF StoreInv

(* A file that another program holds open stays.                           *)
LEMMA HoldKeeps ==
    ASSUME StoreInv, NEW t \in DOMAIN temp, Hold(t)
    PROVE  StoreInv'
  <1>1. /\ left' = left \cup {t} /\ faults' = faults + 1
        /\ UNCHANGED <<object, temp, inode, proc, receipts, crashes>>
    BY DEF Hold
  <1>2. NoLeftovers'
    BY <1>1 DEF StoreInv, NoLeftovers, Live
  <1>3. ObjectsAreTheirContent' /\ (crashes \in Nat /\ faults \in Nat)'
    BY <1>1 DEF StoreInv, ObjectsAreTheirContent
  <1>4. Directory' /\ DistinctPids' /\ LimitHolds'
    BY <1>1 DEF StoreInv, Directory, DistinctPids, LimitHolds
  <1> QED
    BY <1>1, <1>2, <1>3, <1>4 DEF StoreInv

-----------------------------------------------------------------------------
(* The invariant holds.                                                    *)

LEMMA StoreInitInv == StoreInit => StoreInv
  <1> SUFFICES ASSUME StoreInit PROVE StoreInv
    OBVIOUS
  <1>1. /\ object = <<>> /\ temp = <<>> /\ inode = <<>>
        /\ receipts = {} /\ crashes = 0 /\ faults = 0 /\ left = {}
    BY DEF StoreInit
  <1>2. DOMAIN object = {} /\ DOMAIN temp = {} /\ inode \in Seq(Content)
    BY <1>1, EmptySeq
  <1>3. Directory
    BY <1>2 DEF Directory, IsInjective
  <1>4. proc \in [Procs -> {Idle(i, f) : i \in Pids, f \in Files}]
    BY DEF StoreInit
  <1>5. ASSUME NEW p \in Procs
        PROVE  /\ proc[p] \in Stores
               /\ Staged(proc[p], object, temp, inode) /\ Chunking(proc[p], DOMAIN object)
    <2>1. PICK i \in Pids, f \in Files : proc[p] = Idle(i, f)
      BY <1>4
    <2> QED
      BY <2>1, IdleFacts
  <1>6. proc \in [Procs -> Stores]
    BY <1>4, <1>5
  <1>7. DistinctPids
    <2>1. IsInjective([q \in Procs |-> proc[q].pid])
      BY DEF StoreInit
    <2> QED
      BY <2>1 DEF IsInjective, DistinctPids
  <1>8. ObjectsAreTheirContent /\ NoLeftovers /\ LimitHolds
    BY <1>1, <1>2 DEF ObjectsAreTheirContent, NoLeftovers, LimitHolds
  <1>9. receipts \subseteq Files /\ crashes \in Nat /\ faults \in Nat
    BY <1>1
  <1> QED
    BY <1>3, <1>5, <1>6, <1>7, <1>8, <1>9 DEF StoreInv

LEMMA StoreStepInv == StoreInv /\ [StoreNext]_storeVars => StoreInv'
  <1> SUFFICES ASSUME StoreInv, [StoreNext]_storeVars PROVE StoreInv'
    OBVIOUS
  <1>1. ASSUME NEW p \in Procs, ProcessStep(p) PROVE StoreInv'
    BY <1>1, ReadChunkKeeps, WriteManifestKeeps, FindExistingKeeps, CreateTempKeeps,
       NoTempNameKeeps, WriteTempKeeps, CheckCommittedKeeps, LinkKeeps, UnlinkKeeps,
       UnlinkFailsKeeps, StepFailsKeeps DEF ProcessStep
  <1>2. ASSUME NEW p \in Procs, Crash(p) \/ Restart(p) PROVE StoreInv'
    BY <1>2, CrashKeeps, RestartKeeps
  <1>3. ASSUME NEW c \in DOMAIN object, Damage(c) PROVE StoreInv'
    BY <1>3, DamageKeeps
  <1>4. CASE UNCHANGED storeVars
    <2>1. UNCHANGED <<object, temp, inode, proc, receipts, crashes, faults, left>>
      BY <1>4 DEF storeVars
    <2>2. Directory' /\ DistinctPids' /\ ObjectsAreTheirContent' /\ NoLeftovers' /\ LimitHolds'
      BY <2>1 DEF StoreInv, Directory, DistinctPids, ObjectsAreTheirContent, NoLeftovers,
                  LimitHolds, Live
    <2> QED
      BY <2>1, <2>2 DEF StoreInv
  <1>5. ASSUME NEW t \in DOMAIN temp, Hold(t) PROVE StoreInv'
    BY <1>5, HoldKeeps
  <1> QED
    BY <1>1, <1>2, <1>3, <1>4, <1>5 DEF StoreNext

LEMMA StoreInvHolds == StoreSpec => []StoreInv
  BY StoreInitInv, StoreStepInv, PTL DEF StoreSpec

(* A published object holds the content its name identifies, or what disk  *)
(* damage left of it: no crash, no concurrent writer, no leftover file and *)
(* no reused process identifier makes create_temp_file, the write and the  *)
(* hard_link of commit_staged touch a published inode.                     *)
THEOREM PublishedObjectsAreWhole == StoreSpec => []ObjectsAreTheirContent
  <1>1. StoreInv => ObjectsAreTheirContent
    BY DEF StoreInv
  <1> QED
    BY <1>1, StoreInvHolds, PTL

(* TempFileGuard: whichever system call of a put fails, and whoever else   *)
(* publishes the object first, every temporary file in the directory       *)
(* belongs to a put that is under way, or its writer was killed, or the    *)
(* system refused to remove it.                                            *)
THEOREM NoTemporaryFileIsLeft == StoreSpec => []NoLeftovers
  <1>1. StoreInv => NoLeftovers
    BY DEF StoreInv
  <1> QED
    BY <1>1, StoreInvHolds, PTL

(* store_file's probe for one byte more than the limit: a file longer than *)
(* max_file_bytes is never reported as stored.                             *)
THEOREM LongFilesAreRefused == StoreSpec => []LimitHolds
  <1>1. StoreInv => LimitHolds
    BY DEF StoreInv
  <1> QED
    BY <1>1, StoreInvHolds, PTL

-----------------------------------------------------------------------------
(* The store implements its abstract specification.                        *)

(* The chunk at a position inside the file is one of its objects.          *)
LEMMA PositionsArePieces ==
    ASSUME NEW f \in Bytes, NEW k \in Nat, k * Chunk < Len(f)
    PROVE  ChunkOf(PieceAt(f, k)) \in ObjectsOf(f)
  <1>1. Len(f) \in Nat /\ Chunk \in Nat \ {0} /\ k * Chunk \in Nat
    BY StoreAssumption, Positions DEF Bytes
  <1> DEFINE n == Len(f) - 1
             d == n \div Chunk
  <1>2. n \in Nat /\ k * Chunk <= n
    BY <1>1
  <1>3. d \in Nat /\ n < (d + 1) * Chunk
    BY <1>1, <1>2
  <1>4. (d + 1) * Chunk \in Nat /\ k * Chunk < (d + 1) * Chunk
    BY <1>1, <1>2, <1>3, Positions
  <1>5. k <= d
    BY <1>3, <1>4, Positions
  <1>6. PieceAt(f, k) \in Pieces(f)
    BY <1>3, <1>5 DEF Pieces
  <1>7. f # <<>>
    BY <1>1
  <1> QED
    BY <1>6, <1>7 DEF ObjectsOf

(* A put that returns reports nothing, or a file all of whose objects are  *)
(* published.                                                              *)
LEMMA PutReports ==
    ASSUME StoreInv, NEW p \in Procs, proc[p].pc \in Putting,
           proc[p].put.of \in DOMAIN object, Put(p), object' = object
    PROVE  [Abstract!Next]_(Abstract!absVars)
  <1> DEFINE f == proc[p].file
  <1>1. /\ f \in Files /\ f \in Bytes /\ Chunking(proc[p], DOMAIN object)
    BY StoreAssumption DEF StoreInv, Stores, Bytes
  <1>2. CASE Stored(p).result = "ok"
    <2>1. proc[p].put.of = ManifestOf(f) /\ Complete(proc[p])
      BY <1>2, StoredFacts
    <2>2. ASSUME f # <<>>, NEW b \in Pieces(f) PROVE ChunkOf(b) \in DOMAIN object
      <3>1. PICK i \in Nat : i * Chunk < Len(f) /\ b = PieceAt(f, i)
        BY <1>1, <2>2, PiecesArePositions
      <3>2. b \in proc[p].seen
        BY <2>1, <3>1 DEF Complete
      <3> QED
        BY <1>1, <3>2 DEF Chunking
    <2>3. ObjectsOf(f) \subseteq DOMAIN object
      BY <2>1, <2>2 DEF ObjectsOf
    <2>4. receipts' = receipts \cup {f}
      BY <1>2 DEF Put
    <2> QED
      BY <1>1, <2>3, <2>4 DEF Abstract!Next, Abstract!Report
  <1>3. CASE Stored(p).result # "ok"
    <2>1. receipts' = receipts
      BY <1>3 DEF Put
    <2> QED
      BY <2>1 DEF Abstract!absVars
  <1> QED
    BY <1>2, <1>3

(* The content a process stores is an object of its file.                  *)
LEMMA PutIsOfItsFile ==
    ASSUME StoreInv, NEW p \in Procs, proc[p].pc \in Putting
    PROVE  proc[p].put.of \in ObjectsOf(proc[p].file)
  <1> DEFINE f == proc[p].file
  <1>1. f \in Bytes /\ Chunking(proc[p], DOMAIN object)
    BY StoreAssumption DEF StoreInv, Stores, Bytes
  <1>2. CASE proc[p].put.of = ManifestOf(f)
    BY <1>2 DEF ObjectsOf
  <1>3. CASE \E k \in Nat : Read(proc[p], k) /\ NextPiece(proc[p], k)
    BY <1>1, <1>3, PositionsArePieces DEF NextPiece
  <1> QED
    BY <1>1, <1>2, <1>3 DEF Chunking

(* The link publishes one object of a file, or finds it published.         *)
LEMMA LinkPublishes ==
    ASSUME StoreInv, NEW p \in Procs, Link(p)
    PROVE  [Abstract!Next]_(Abstract!absVars)
  <1> DEFINE c == proc[p].put.of
  <1>1. proc[p].pc \in Putting /\ proc[p].file \in Files
    BY DEF Link, Putting, StoreInv, Stores
  <1>2. CASE c \in DOMAIN object
    <2>1. CASE Return(p, "PackageCorrupt")
      BY <2>1 DEF Return, Abstract!absVars
    <2>2. CASE Put(p) /\ object' = object
      BY <1>1, <1>2, <2>2, PutReports
    <2> QED
      BY <1>2, <2>1, <2>2 DEF Link, Exists
  <1>3. CASE c \notin DOMAIN object
    <2>1. DOMAIN object' = DOMAIN object \cup {c} /\ receipts' = receipts
      BY <1>3 DEF Link, Exists, Bind
    <2>2. c \in ObjectsOf(proc[p].file) \ DOMAIN object
      BY <1>1, <1>3, PutIsOfItsFile
    <2> QED
      BY <1>1, <2>1, <2>2 DEF Abstract!Next, Abstract!Publish
  <1> QED
    BY <1>2, <1>3

(* One turn of the loop reports and publishes nothing.                     *)
LEMMA ReadChunkReturns ==
    ASSUME StoreInv, NEW p \in Procs, ReadChunk(p)
    PROVE  Return(p, "SecurityPolicy") \/ \E r : Local(p, r)
  <1> DEFINE bytes == Filled(p)
             total == proc[p].total + Len(bytes)
  <1>1. /\ proc[p] \in Stores /\ proc[p].pc = "chunk" /\ Chunking(proc[p], DOMAIN object)
        /\ MaxFile \in Nat
    BY StoreAssumption DEF StoreInv, ReadChunk
  <1>2. /\ proc[p].total \in Nat /\ Len(proc[p].file) \in Nat
        /\ proc[p].total <= MaxFile /\ proc[p].total <= Len(proc[p].file)
    BY <1>1, StoreAssumption DEF Stores, Chunking
  <1>3. CASE proc[p].total = MaxFile
    <2>1. CASE Len(proc[p].file) > MaxFile
      BY <1>1, <1>2, <1>3, <2>1 DEF ReadChunk
    <2>2. CASE ~(Len(proc[p].file) > MaxFile)
      <3>1. Len(proc[p].file) <= MaxFile
        BY <1>1, <1>2, <2>2
      <3> QED
        BY <1>3, <2>2, <3>1 DEF ReadChunk
    <2> QED
      BY <2>1, <2>2
  <1>4. CASE proc[p].total # MaxFile
    <2>1. PICK k \in Nat : proc[p].total = k * Chunk
      BY <1>1 DEF Chunking
    <2>2. proc[p].total < MaxFile
      BY <1>1, <1>2, <1>4
    <2>3. bytes \in Bytes
      BY <1>1, <1>2, <2>1, <2>2, FilledIsNext
    <2>4. total \in Nat
      BY <1>2, <2>3 DEF Bytes
    <2>5. CASE total > MaxFile
      <3>1. ~(total <= MaxFile)
        BY <1>1, <2>4, <2>5
      <3> QED
        BY <1>4, <2>5, <3>1 DEF ReadChunk
    <2>6. CASE ~(total > MaxFile)
      <3>1. total <= MaxFile
        BY <1>1, <2>4, <2>6
      <3> QED
        BY <1>4, <2>6, <3>1 DEF ReadChunk, PutKnown
    <2> QED
      BY <2>5, <2>6
  <1> QED
    BY <1>3, <1>4

LEMMA StepImplements ==
    ASSUME StoreInv, [StoreNext]_storeVars
    PROVE  [Abstract!Next]_(Abstract!absVars)
  <1>1. CASE UNCHANGED <<object, receipts>>
    BY <1>1 DEF Abstract!absVars
  <1>2. ASSUME NEW p \in Procs, ProcessStep(p) PROVE [Abstract!Next]_(Abstract!absVars)
    <2>1. CASE ReadChunk(p)
      <3>1. Return(p, "SecurityPolicy") \/ \E r : Local(p, r)
        BY <2>1, ReadChunkReturns
      <3> QED
        BY <1>1, <3>1 DEF Return, Local
    <2>2. CASE \/ WriteManifest(p) \/ CreateTemp(p) \/ NoTempName(p) \/ WriteTemp(p)
               \/ UnlinkFails(p) \/ StepFails(p)
      BY <1>1, <2>2 DEF WriteManifest, CreateTemp, NoTempName, WriteTemp, UnlinkFails,
                        StepFails, Local, Return
    <2>3. CASE FindExisting(p) \/ CheckCommitted(p)
      <3>1. proc[p].pc \in Putting
        BY <2>3 DEF FindExisting, CheckCommitted, Putting
      <3>2. \/ Return(p, "PackageCorrupt")
            \/ proc[p].put.of \in DOMAIN object /\ Put(p) /\ object' = object
            \/ UNCHANGED <<object, receipts>>
        BY <2>3 DEF FindExisting, CheckCommitted, Exists, Verified, Local
      <3> QED
        BY <1>1, <3>1, <3>2, PutReports DEF Return
    <2>4. CASE Link(p)
      BY <2>4, LinkPublishes
    <2>5. CASE Unlink(p)
      <3>1. proc[p].pc \in Putting /\ proc[p].put.of \in DOMAIN object
        BY <2>5 DEF StoreInv, Unlink, Chunking, Putting
      <3> QED
        BY <2>5, <3>1, PutReports DEF Unlink
    <2> QED
      BY <1>2, <2>1, <2>2, <2>3, <2>4, <2>5 DEF ProcessStep
  <1>3. ASSUME NEW p \in Procs, Crash(p) \/ Restart(p) PROVE UNCHANGED <<object, receipts>>
    BY <1>3 DEF Crash, Restart, Local
  <1>4. ASSUME NEW c \in DOMAIN object, Damage(c) PROVE UNCHANGED <<object, receipts>>
    BY <1>4 DEF Damage
  <1>5. CASE UNCHANGED storeVars
    BY <1>1, <1>5 DEF storeVars
  <1>6. ASSUME NEW t \in DOMAIN temp, Hold(t) PROVE UNCHANGED <<object, receipts>>
    BY <1>6 DEF Hold
  <1> QED
    BY <1>1, <1>2, <1>3, <1>4, <1>5, <1>6 DEF StoreNext

(* The store is an immutable set of contents: objects are published one at *)
(* a time and never withdrawn, and store_file reports a file only when its *)
(* manifest and all of its chunks are published, whatever other processes, *)
(* crashes and disk damage do in between.                                  *)
THEOREM StoreImplementsAbstract == StoreSpec => ImplementsStore
  <1>1. StoreInit => Abstract!Init
    <2> SUFFICES ASSUME StoreInit PROVE Abstract!Init
      OBVIOUS
    <2>1. object = <<>> /\ receipts = {}
      BY DEF StoreInit
    <2>2. DOMAIN object = {}
      BY <2>1
    <2> QED
      BY <2>1, <2>2 DEF Abstract!Init
  <1>2. StoreInv /\ [StoreNext]_storeVars => [Abstract!Next]_(Abstract!absVars)
    BY StepImplements
  <1> QED
    BY <1>1, <1>2, StoreInvHolds, PTL DEF StoreSpec, ImplementsStore, Abstract!Spec
=============================================================================
