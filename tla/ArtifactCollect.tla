--------------------------- MODULE ArtifactCollect --------------------------
(***************************************************************************)
(* ArtifactCollector (reforge-discovery, artifacts.rs): the files and      *)
(* directories an adapter selected are walked, checked against the limits  *)
(* with the size seen first, read, and checked again with the size that    *)
(* was read.  Other programs write the files meanwhile.                    *)
(*                                                                         *)
(* A path is a sequence of names; `disk` maps paths to                     *)
(* [kind, size, opens, class].                                             *)
(*                                                                         *)
(* The second half is its ContentProbe: the streaming classifier of a      *)
(* file's bytes.  The reader hands the bytes over in buffers that may end  *)
(* anywhere, also inside a character or a line end, so the probe keeps     *)
(* what it needs of the bytes before.  It is a state machine of its own:   *)
(* the collector only sees the class it finds.                             *)
(***************************************************************************)
EXTENDS Naturals, Sequences, FiniteSets, SequencesExt, Functions

CONSTANTS
    Selections,    \* sequences of requests [path, policy]
    Disks,         \* file systems at first
    Sizes,         \* sizes a file may get
    MaxRequests, MaxArtifacts, MaxTotal, MaxFile, LargeThreshold, MaxDepth,
    MaxWarnings, MaxChanges,
    Bytes,         \* the bytes a file is made of
    MaxLength      \* bounds the file that is probed

VARIABLES
    requests, disk,
    next,          \* the next request
    queue,         \* observations of the walked directory: [path, kind, size]
    pc, file,      \* the file being collected: [path, size]
    artifacts, total, warnings,    \* ArtifactCollection; a warning is its path
    changes,
    touched,       \* history: the paths other programs changed
    probe,         \* ContentProbe
    seen           \* history: the bytes written so far

(* Nothing lies below a file, and sizes and limits are numbers.            *)
ArtifactAssumption ==
    /\ \A d \in Disks :
          /\ IsFiniteSet(DOMAIN d) /\ \A p \in DOMAIN d : d[p].size \in Nat
          /\ \A p, q \in DOMAIN d : d[p].kind = "file" /\ Len(p) < Len(q) => ~IsPrefix(p, q)
    /\ \A s \in Selections : Len(s) \in Nat
    /\ Sizes \subseteq Nat
    /\ \A n \in {MaxRequests, MaxArtifacts, MaxTotal, MaxFile, LargeThreshold, MaxDepth,
                MaxWarnings, MaxChanges} : n \in Nat
    /\ Bytes \subseteq 0..255 /\ MaxLength \in Nat

acVars == <<requests, disk, next, queue, pc, file, artifacts, total, warnings, changes,
            touched>>

NoFile == [path |-> <<>>, size |-> 0]

AcInit ==
    /\ requests \in Selections /\ disk \in Disks /\ next = 1 /\ queue = <<>>
    /\ pc = "request" /\ file = NoFile
    /\ artifacts = <<>> /\ total = 0 /\ warnings = <<>> /\ changes = 0 /\ touched = {}

Request == requests[next]

(* push_warning: past the limit a warning is dropped without a word.       *)
Warn(path) ==
    warnings' = IF Len(warnings) < MaxWarnings THEN Append(warnings, path) ELSE warnings
Warned == Range(warnings)

Listed == {artifacts[i].path : i \in DOMAIN artifacts}

(***************************************************************************)
(* walk_reparse_safe                                                       *)
(***************************************************************************)
Below(dir) == {p \in DOMAIN disk : Len(p) > Len(dir) /\ IsPrefix(dir, p)}

(* Nothing below a reparse point is entered.                               *)
Reached(dir) ==
    {p \in Below(dir) : \A q \in Below(dir) : IsStrictPrefix(q, p) => disk[q].kind = "directory"}

(* One entry that cannot be inspected, one too many or one too deep gives  *)
(* the whole directory up.                                                 *)
WalkFails(dir, max) ==
    \/ disk[dir].opens = FALSE
    \/ Cardinality(Reached(dir)) > max
    \/ \E p \in Reached(dir) : disk[p].kind = "directory"
          /\ (Len(p) - Len(dir) >= MaxDepth \/ ~disk[p].opens)

Observations(dir) ==
    LET entries == SetToSeq(Reached(dir))
    IN [i \in DOMAIN entries |->
          [path |-> entries[i], kind |-> disk[entries[i]].kind, size |-> disk[entries[i]].size]]

(***************************************************************************)
(* collect                                                                 *)
(***************************************************************************)
Collect(path, size) ==
    /\ pc' = "check" /\ file' = [path |-> path, size |-> size]
    /\ UNCHANGED warnings

(* One request: a path that does not exist is handed on as an empty file,  *)
(* which the reader then reports.                                          *)
NextRequest ==
    /\ pc = "request" /\ next <= Len(requests) /\ next <= MaxRequests /\ queue = <<>>
    /\ LET p == Request.path
           room == IF MaxArtifacts > Len(artifacts) THEN MaxArtifacts - Len(artifacts) ELSE 1
       IN IF p \notin DOMAIN disk THEN Collect(p, 0) /\ UNCHANGED queue
          ELSE CASE disk[p].kind = "file" -> Collect(p, disk[p].size) /\ UNCHANGED queue
                 [] disk[p].kind = "directory" /\ ~WalkFails(p, room) ->
                       /\ queue' = Observations(p) /\ UNCHANGED <<file, warnings>>
                       /\ pc' = IF Reached(p) = {} THEN "done" ELSE "entry"
                 [] OTHER -> Warn(p) /\ pc' = "done" /\ UNCHANGED <<file, queue>>
    /\ UNCHANGED <<requests, disk, next, artifacts, total, changes, touched>>

(* The next observation of the walk.                                       *)
NextEntry ==
    /\ pc = "entry"
    /\ queue' = Tail(queue)
    /\ LET o == Head(queue)
       IN CASE o.kind = "file" -> Collect(o.path, o.size)
            [] o.kind = "reparse" -> Warn(o.path) /\ pc' = "after" /\ UNCHANGED file
            [] OTHER -> pc' = "after" /\ UNCHANGED <<file, warnings>>
    /\ UNCHANGED <<requests, disk, next, artifacts, total, changes, touched>>

(* After an entry: a full collection ends the walk's loop.                 *)
AfterEntry ==
    /\ pc = "after"
    /\ IF queue = <<>> \/ Len(artifacts) >= MaxArtifacts
       THEN pc' = "done" /\ queue' = <<>>
       ELSE pc' = "entry" /\ UNCHANGED queue
    /\ UNCHANGED <<requests, disk, next, file, artifacts, total, warnings, changes, touched>>

NextFile == pc' = "after" /\ file' = NoFile

RequestDone ==
    /\ pc = "done" /\ next' = next + 1 /\ pc' = "request"
    /\ UNCHANGED <<requests, disk, queue, file, artifacts, total, warnings, changes, touched>>

(* The limits of a size: the file, the large files, the collection.        *)
Exceeds(size) ==
    \/ size > MaxFile
    \/ size > LargeThreshold /\ Request.policy # "large_opt_in"
    \/ total + size > MaxTotal

(* Faulty variant: the ids seen are not asked.                             *)
CheckAgain ==
    /\ pc = "check"
    /\ IF Len(artifacts) >= MaxArtifacts THEN NextFile /\ UNCHANGED warnings
       ELSE IF Exceeds(file.size) THEN NextFile /\ Warn(file.path)
       ELSE pc' = "read" /\ UNCHANGED <<file, warnings>>
    /\ UNCHANGED <<requests, disk, next, queue, artifacts, total, changes, touched>>

(* Faulty variant: a file that is too large is left out without a warning. *)
CheckSilently ==
    /\ pc = "check"
    /\ IF Len(artifacts) >= MaxArtifacts \/ file.path \in Listed \/ Exceeds(file.size)
       THEN NextFile /\ UNCHANGED warnings
       ELSE pc' = "read" /\ UNCHANGED <<file, warnings>>
    /\ UNCHANGED <<requests, disk, next, queue, artifacts, total, changes, touched>>

(* collect_file up to the read: a full collection and a path that was      *)
(* collected before end it without a word.                                 *)
Check ==
    /\ pc = "check"
    /\ IF Len(artifacts) >= MaxArtifacts \/ file.path \in Listed THEN NextFile /\ UNCHANGED warnings
       ELSE IF Exceeds(file.size) THEN NextFile /\ Warn(file.path)
       ELSE pc' = "read" /\ UNCHANGED <<file, warnings>>
    /\ UNCHANGED <<requests, disk, next, queue, artifacts, total, changes, touched>>

Keep(size, policy) ==
    /\ artifacts' = Append(artifacts, [path |-> file.path, size |-> size, policy |-> policy])
    /\ total' = total + size

(* Faulty variant: the size that was checked is taken as read.             *)
ReadUnchecked ==
    /\ pc = "read"
    /\ IF file.path \notin DOMAIN disk \/ ~disk[file.path].opens
       THEN Warn(file.path) /\ UNCHANGED <<artifacts, total>>
       ELSE Keep(disk[file.path].size, Request.policy) /\ UNCHANGED warnings
    /\ NextFile
    /\ UNCHANGED <<requests, disk, next, queue, changes, touched>>

(* BoundedFileReader: a regular file that opens and is read whole within   *)
(* the limit.                                                              *)
Readable(p) == disk[p].kind = "file" /\ disk[p].opens /\ disk[p].size <= MaxFile

(* The rest of collect_file: secrets and manual items are inspected, all   *)
(* others are read, and the limits are applied to what was found.  An item *)
(* of an unknown class is left to the user.                                *)
Read ==
    /\ pc = "read"
    /\ LET p == file.path
           private == Request.policy \in {"manual", "secret"}
       IN IF \/ p \notin DOMAIN disk
             \/ (IF private THEN disk[p].kind # "file" ELSE ~Readable(p))
             \/ Exceeds(disk[p].size)
          THEN Warn(p) /\ UNCHANGED <<artifacts, total>>
          ELSE LET unknown == private /\ disk[p].class = "unknown"
               IN /\ Keep(disk[p].size, IF unknown THEN "manual" ELSE Request.policy)
                  /\ IF unknown THEN Warn(p) ELSE UNCHANGED warnings
    /\ NextFile
    /\ UNCHANGED <<requests, disk, next, queue, changes, touched>>

(* More requests than the limit: one warning for all, at the end.          *)
TooMany ==
    /\ pc = "request" /\ next = MaxRequests + 1 /\ next <= Len(requests)
    /\ Warn(<<>>) /\ next' = next + 1
    /\ UNCHANGED <<requests, disk, queue, pc, file, artifacts, total, changes, touched>>

(* Another program rewrites, locks, removes or replaces a file.            *)
Change(p) ==
    /\ changes < MaxChanges /\ changes' = changes + 1 /\ disk[p].kind = "file"
    /\ \/ \E s \in Sizes : disk' = [disk EXCEPT ![p].size = s]
       \/ disk' = [disk EXCEPT ![p].opens = FALSE]
       \/ disk' = [disk EXCEPT ![p].kind = "reparse"]
       \/ disk' = [q \in DOMAIN disk \ {p} |-> disk[q]]
    /\ touched' = touched \cup {p}
    /\ UNCHANGED <<requests, next, queue, pc, file, artifacts, total, warnings>>

AcNext ==
    \/ NextRequest \/ NextEntry \/ AfterEntry \/ RequestDone \/ Check \/ Read \/ TooMany
    \/ \E p \in DOMAIN disk : Change(p)

AcSpec == AcInit /\ [][AcNext]_acVars

-----------------------------------------------------------------------------
(***************************************************************************)
(* ContentProbe                                                            *)
(***************************************************************************)
cpVars == <<probe, seen>>

(* ContentProbe::new                                                       *)
New == [has_nul |-> FALSE, valid_utf8 |-> TRUE, remaining |-> 0, min |-> 0, max |-> 0,
        first |-> FALSE, lf |-> 0, crlf |-> 0, lone_cr |-> 0, pending_cr |-> FALSE]

CpInit == probe = New /\ seen = <<>>

Start(p, remaining, min, max) ==
    [p EXCEPT !.remaining = remaining, !.min = min, !.max = max, !.first = TRUE]

(* Faulty variant: every continuation byte is accepted after a lead byte.  *)
LeadLoosely(p, b) ==
    CASE b <= 127 -> p
      [] b \in 194..223 -> Start(p, 1, 128, 191)
      [] b \in 224..239 -> Start(p, 2, 128, 191)
      [] b \in 240..244 -> Start(p, 3, 128, 191)
      [] OTHER -> [p EXCEPT !.valid_utf8 = FALSE]

(* observe_utf8 between characters                                         *)
Lead(p, b) ==
    CASE b <= 127 -> p
      [] b \in 194..223 -> Start(p, 1, 128, 191)
      [] b = 224 -> Start(p, 2, 160, 191)
      [] b \in (225..239) \ {237} -> Start(p, 2, 128, 191)
      [] b = 237 -> Start(p, 2, 128, 159)
      [] b = 240 -> Start(p, 3, 144, 191)
      [] b \in 241..243 -> Start(p, 3, 128, 191)
      [] b = 244 -> Start(p, 3, 128, 143)
      [] OTHER -> [p EXCEPT !.valid_utf8 = FALSE]

(* observe_utf8 inside a character                                         *)
Continue(p, b) ==
    LET min == IF p.first THEN p.min ELSE 128
        max == IF p.first THEN p.max ELSE 191
    IN IF b \in min..max THEN [p EXCEPT !.remaining = @ - 1, !.first = FALSE]
       ELSE [p EXCEPT !.valid_utf8 = FALSE, !.remaining = 0, !.first = FALSE]

ObserveUtf8(p, b) ==
    IF ~p.valid_utf8 THEN p ELSE IF p.remaining = 0 THEN Lead(p, b) ELSE Continue(p, b)

(* Faulty variant: after a lone carriage return the byte is not looked at. *)
ObserveNewlineOnce(p, b) ==
    IF p.pending_cr
    THEN IF b = 10 THEN [p EXCEPT !.crlf = @ + 1, !.pending_cr = FALSE]
         ELSE [p EXCEPT !.lone_cr = @ + 1, !.pending_cr = FALSE]
    ELSE IF b = 13 THEN [p EXCEPT !.pending_cr = TRUE]
    ELSE IF b = 10 THEN [p EXCEPT !.lf = @ + 1]
    ELSE p

(* The line ends: a carriage return waits for the next byte.               *)
ObserveNewline(p, b) ==
    IF p.pending_cr /\ b = 10 THEN [p EXCEPT !.crlf = @ + 1, !.pending_cr = FALSE]
    ELSE LET q == IF p.pending_cr THEN [p EXCEPT !.lone_cr = @ + 1, !.pending_cr = FALSE] ELSE p
         IN CASE b = 13 -> [q EXCEPT !.pending_cr = TRUE]
              [] b = 10 -> [q EXCEPT !.lf = @ + 1]
              [] OTHER -> q

(* Write::write, for one byte: the buffers are concatenated.               *)
Write(b) ==
    /\ Len(seen) < MaxLength
    /\ probe' = ObserveNewline(ObserveUtf8([probe EXCEPT !.has_nul = @ \/ b = 0], b), b)
    /\ seen' = Append(seen, b)

CpNext == \E b \in Bytes : Write(b)

CpSpec == CpInit /\ [][CpNext]_cpVars

(* finish                                                                  *)
Finish ==
    LET lone == probe.lone_cr + IF probe.pending_cr THEN 1 ELSE 0
    IN [has_nul |-> probe.has_nul,
        valid_utf8 |-> probe.valid_utf8 /\ probe.remaining = 0,
        newline |-> CASE probe.lf = 0 /\ probe.crlf = 0 /\ lone = 0 -> "none"
                      [] probe.lf > 0 /\ probe.crlf = 0 /\ lone = 0 -> "lf"
                      [] probe.lf = 0 /\ probe.crlf > 0 /\ lone = 0 -> "crlf"
                      [] OTHER -> "mixed"]

(* Faulty variant: bytes that are no text pass for text.                   *)
ClassifyText(extension) ==
    IF extension = "archive" THEN "archive"
    ELSE IF extension \in {"json", "jsonc", "toml"} THEN extension ELSE "text"

(* classify_content, over the class of the extension                       *)
ClassifyContent(extension) ==
    IF extension = "archive" THEN "archive"
    ELSE IF Finish.has_nul \/ ~Finish.valid_utf8 THEN "binary"
    ELSE IF extension \in {"json", "jsonc", "toml"} THEN extension ELSE "text"

(***************************************************************************)
(* Reference definitions                                                   *)
(***************************************************************************)
(* The value of a character of n bytes, from the bits of its bytes.        *)
Value(s) ==
    LET low(i) == s[i] % 64
    IN CASE Len(s) = 1 -> s[1]
         [] Len(s) = 2 -> (s[1] % 32) * 64 + low(2)
         [] Len(s) = 3 -> (s[1] % 16) * 4096 + low(2) * 64 + low(3)
         [] Len(s) = 4 -> (s[1] % 8) * 262144 + low(2) * 4096 + low(3) * 64 + low(4)

(* A character: the lead byte gives the length, the value needs it, and it *)
(* is a scalar value (no surrogate, at most U+10FFFF).                     *)
IsCharacter(s) ==
    /\ CASE Len(s) = 1 -> s[1] < 128
         [] Len(s) = 2 -> s[1] \in 192..223
         [] Len(s) = 3 -> s[1] \in 224..239
         [] Len(s) = 4 -> s[1] \in 240..247
    /\ \A i \in 2..Len(s) : s[i] \in 128..191
    /\ Value(s) >= <<0, 128, 2048, 65536>>[Len(s)]
    /\ Value(s) <= 1114111 /\ Value(s) \notin 55296..57343

(* The bytes can be cut into characters: Cuts(s)[i] holds when the first i *)
(* bytes can.                                                              *)
Cuts(s) ==
    LET cuts[i \in 0..Len(s)] ==
          i = 0 \/ \E n \in 1..4 : n <= i /\ cuts[i - n] /\ IsCharacter(SubSeq(s, i - n + 1, i))
    IN cuts
IsUtf8(s) == Cuts(s)[Len(s)]

(* The line ends by position.                                              *)
IsCrLf(s, i) == i < Len(s) /\ s[i] = 13 /\ s[i + 1] = 10
CrLfs(s) == {i \in DOMAIN s : IsCrLf(s, i)}
OtherCrs(s) == {i \in DOMAIN s : s[i] = 13} \ CrLfs(s)
OtherLfs(s) == {i \in DOMAIN s : s[i] = 10 /\ ~(i > 1 /\ s[i - 1] = 13)}

(***************************************************************************)
(* Properties                                                              *)
(***************************************************************************)
SizeOf(list) ==
    LET size[n \in 0..Len(list)] == IF n = 0 THEN 0 ELSE size[n - 1] + list[n].size
    IN size[Len(list)]

Finished == pc = "request" /\ (next > Len(requests) \/ next > MaxRequests)

(* What is collected stays within every limit with the sizes that were     *)
(* read, however the files grow after they were seen, and the recorded     *)
(* total is the sum (ArtifactCollection::total_size_bytes).                *)
WithinLimits ==
    /\ Len(artifacts) <= MaxArtifacts /\ total <= MaxTotal
    /\ total = SizeOf(artifacts)
    /\ \A i \in DOMAIN artifacts :
          /\ artifacts[i].size <= MaxFile
          /\ artifacts[i].size > LargeThreshold => artifacts[i].policy = "large_opt_in"

(* No path is collected twice, also when requests overlap.                 *)
CollectedOnce == Cardinality(Listed) = Len(artifacts)

(* In the end every selected file that no other program changed meanwhile  *)
(* was collected or has a warning, its own or its request's, whatever      *)
(* happened to the files around it, unless the artifacts or the warnings   *)
(* are at their limit ("retained as a warning and does not abort other     *)
(* selected requests").                                                    *)
NothingIsDropped ==
    Finished /\ Len(artifacts) < MaxArtifacts /\ Len(warnings) < MaxWarnings =>
        \A i \in 1..Len(requests) : i <= MaxRequests =>
            \/ requests[i].path \in Warned
            \/ requests[i].path \notin DOMAIN disk
            \/ \A p \in ({requests[i].path} \cup Reached(requests[i].path)) \ touched :
                  disk[p].kind \in {"file", "reparse"} => p \in Listed \cup Warned

(* At every byte, the probe would find the bytes so far valid UTF-8        *)
(* exactly when they are a sequence of encoded Unicode scalar values, in   *)
(* the shortest form (observe_utf8, finish).                               *)
ValidIsUtf8 == Finish.valid_utf8 <=> IsUtf8(seen)

(* The line ends are counted by what they are: the probe's style is "lf"   *)
(* or "crlf" only if all are.                                              *)
NewlineIsExact ==
    LET kinds == (IF CrLfs(seen) # {} THEN {"crlf"} ELSE {}) \cup
                 (IF OtherLfs(seen) # {} THEN {"lf"} ELSE {}) \cup
                 (IF OtherCrs(seen) # {} THEN {"mixed"} ELSE {})
    IN /\ probe.crlf = Cardinality(CrLfs(seen)) /\ probe.lf = Cardinality(OtherLfs(seen))
       /\ Finish.newline = (CASE kinds = {} -> "none"
                              [] Cardinality(kinds) = 1 -> CHOOSE k \in kinds : TRUE
                              [] OTHER -> "mixed")

(* What is classified as text, whatever the extension, holds no NUL and    *)
(* can be decoded (classify_content).                                      *)
TextIsText ==
    \A x \in {"json", "jsonc", "toml", "other"} :
        ClassifyContent(x) # "binary" <=> (IsUtf8(seen) /\ 0 \notin ToSet(seen))
=============================================================================
