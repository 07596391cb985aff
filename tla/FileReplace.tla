---------------------------- MODULE FileReplace ----------------------------
(***************************************************************************)
(* One file operation of a restore, from the executor's probe to the       *)
(* journal record: the WriteFile handler (handlers/files.rs), the          *)
(* configuration handler (handlers/config.rs) and the atomic replacement   *)
(* they share (reforge-platform-windows/src/fs.rs).                        *)
(*                                                                         *)
(* A file is a set of lines.  The user edits, removes or recreates the     *)
(* destination between any two file system calls; a call may fail; the     *)
(* process may crash.  Generated sibling names never collide, so backups   *)
(* are numbered in the order they are made.  Attributes are kept only as   *)
(* the calls that may fail.                                                *)
(***************************************************************************)
EXTENDS Naturals, Sequences

CONSTANTS
    Modes,       \* FileMode, or "MERGE" for MergeJson and MergeToml
    Package,     \* the lines of the package artifact
    Original,    \* the lines the destination may hold before the restore
    Edits,       \* lines the user may add while it runs
    MaxFaults,   \* bound: crashes and failed calls
    MaxEdits     \* bound: steps of the user

ASSUME FileAssumption ==
    /\ Modes \subseteq {"PRESERVE_TARGET", "REPLACE", "CREATE_ONLY", "MERGE"}
    /\ Package # {}
    /\ Package \cap Original = {} /\ Package \cap Edits = {}
    /\ Original \cap Edits = {}
    /\ {"half", "absent", "other"} \cap (Package \cup Original \cup Edits) = {}
    /\ MaxFaults \in Nat /\ MaxEdits \in Nat

VARIABLES
    mode,      \* the mode of the operation
    dest,      \* the destination path
    temp,      \* the generated temporary sibling of this attempt
    baks,      \* the generated backup siblings, oldest first
    litter,    \* temporary siblings left behind
    row,       \* the operation's journal row: state and backup column
    h,         \* where the process is, what it read, what it will record
    owned,     \* the lines the user put in the destination and did not remove
    faults,    \* faults so far
    edits      \* steps of the user so far

vars == <<mode, dest, temp, baks, litter, row, h, owned, faults, edits>>
disk == <<dest, temp, baks, litter>>
user == <<owned, edits>>

Lines == Package \cup Original \cup Edits \cup {"half"}
File == SUBSET Lines
Half == {"half"}         \* a temporary file that is still being written
Absent == {"absent"}     \* no file
Other == {"other"}       \* a directory or another object that is not a file

Row == [state : {"PENDING", "RUNNING", "COMPLETED", "SKIPPED", "FAILED",
                 "WAITING_FOR_USER", "INTERRUPTED"},
        backup : 0..(Len(baks))]
Done == {"COMPLETED", "SKIPPED"}

Labels == {"idle", "mark", "inspect", "temp", "stream", "choose", "publish",
           "replace", "attributes", "rollback", "drop", "record"}

FileTypeOK ==
    /\ mode \in Modes
    /\ dest \in File \cup {Absent, Other}
    /\ temp \in File \cup {Absent}
    /\ baks \in Seq(File \cup {Absent})
    /\ litter \subseteq File
    /\ row \in Row
    /\ h \in [pc : Labels, read : File \cup {Absent}, base : 0..Len(baks), out : Row]
    /\ owned \subseteq Original \cup Edits
    /\ faults \in 0..MaxFaults /\ edits \in 0..MaxEdits

NoRow == [state |-> "PENDING", backup |-> 0]
Idle == [pc |-> "idle", read |-> Absent, base |-> 0, out |-> NoRow]

Init ==
    /\ mode \in Modes
    /\ dest \in {Absent, Original}
    /\ temp = Absent /\ baks = <<>> /\ litter = {}
    /\ row = NoRow /\ h = Idle
    /\ owned = IF dest = Absent THEN {} ELSE dest
    /\ faults = 0 /\ edits = 0

-----------------------------------------------------------------------------
Fault == faults < MaxFaults /\ faults' = faults + 1
Goto(label) == h' = [h EXCEPT !.pc = label]
Outcome(state, backup) ==
    h' = [h EXCEPT !.pc = "record", !.out = [state |-> state, backup |-> backup]]
Fail == Outcome("FAILED", 0)

(* TempFileGuard::drop: removal is attempted and its result ignored.       *)
Discard ==
    /\ temp' = Absent
    /\ litter' \in {litter, litter \cup {temp}}

(* The executor's visit: is_satisfied compares the whole destination with  *)
(* the artifact; a merge never counts as satisfied before it is computed.  *)
Probe ==
    /\ h.pc = "idle" /\ row.state \notin Done
    /\ \/ dest = Other /\ Fail
       \/ mode # "MERGE" /\ dest = Package /\ Outcome("SKIPPED", 0)
       \/ dest # Other /\ ~(mode # "MERGE" /\ dest = Package) /\ Goto("mark")
    /\ UNCHANGED <<disk, row, user, faults>>

(* Starting an attempt clears the stored result, error and backup.         *)
MarkRunning ==
    /\ h.pc = "mark"
    /\ row' = [state |-> "RUNNING", backup |-> 0]
    /\ h' = [h EXCEPT !.pc = "inspect", !.base = Len(baks)]
    /\ UNCHANGED <<disk, user, faults>>

Wanted(target) ==
    IF mode = "MERGE" THEN Package \cup (IF target = Absent THEN {} ELSE target)
    ELSE Package

(* execute up to the artifact: the handler's own look at the destination.  *)
Inspect ==
    /\ h.pc = "inspect"
    /\ \/ dest = Other /\ Fail
       \/ mode = "CREATE_ONLY" /\ dest \in File /\ Fail
       \/ mode = "MERGE" /\ dest \in File /\ Wanted(dest) = dest /\ Outcome("SKIPPED", 0)
       \/ /\ dest # Other
          /\ mode = "CREATE_ONLY" => dest = Absent
          /\ mode = "MERGE" => Wanted(dest) # dest
          /\ h' = [h EXCEPT !.pc = "temp", !.read = dest]
    /\ UNCHANGED <<disk, row, user, faults>>

(* The merge policy asks for a review of a conflicting key.                *)
MergeConflict ==
    /\ h.pc = "inspect" /\ mode = "MERGE" /\ dest \in File
    /\ Fault
    /\ Outcome("WAITING_FOR_USER", 0)
    /\ UNCHANGED <<disk, row, user>>

(* The package object is missing, too large, or not the bytes its identity *)
(* names.                                                                  *)
ArtifactFails ==
    /\ h.pc = "inspect"
    /\ Fault
    /\ Fail
    /\ UNCHANGED <<disk, row, user>>

(* A component of the path is a reparse point, is not a directory, or      *)
(* cannot be created; checked before the temporary file is made.           *)
PathFails ==
    /\ h.pc = "temp"
    /\ Fault
    /\ Fail
    /\ UNCHANGED <<disk, row, user>>

CreateTempFile ==
    /\ h.pc = "temp"
    /\ temp' = Half
    /\ Goto("stream")
    /\ UNCHANGED <<dest, baks, litter, row, user, faults>>

(* Faulty variant: a source that ends early is accepted.                   *)
StreamUnchecked ==
    /\ h.pc = "stream"
    /\ temp' \in {Half, Wanted(h.read)}
    /\ Goto("choose")
    /\ UNCHANGED <<dest, baks, litter, row, user, faults>>

(* The copy, its length and hash checks, and the attributes.               *)
Stream ==
    /\ h.pc = "stream"
    /\ temp' = Wanted(h.read)
    /\ Goto("choose")
    /\ UNCHANGED <<dest, baks, litter, row, user, faults>>

StreamFails ==
    /\ h.pc = "stream"
    /\ Fault
    /\ Discard
    /\ Fail
    /\ UNCHANGED <<dest, baks, row, user>>

(* The second look at the destination decides between the two commits; it  *)
(* does not know of CREATE_ONLY.                                           *)
Choose ==
    /\ h.pc = "choose"
    /\ IF dest = Other
       THEN Fail /\ Discard
       ELSE Goto(IF dest = Absent THEN "publish" ELSE "replace") /\ UNCHANGED <<temp, litter>>
    /\ UNCHANGED <<dest, baks, row, user, faults>>

-----------------------------------------------------------------------------
(* Faulty variant: a new file is recorded with a backup.                   *)
PublishClaimsBackup ==
    /\ h.pc = "publish" /\ dest = Absent
    /\ dest' = temp /\ temp' = Absent /\ litter' = litter
    /\ baks' = Append(baks, Absent)
    /\ Outcome("COMPLETED", 0)
    /\ UNCHANGED <<row, user, faults>>

(* MoveFileExW without REPLACE_EXISTING.                                   *)
Publish ==
    /\ h.pc = "publish"
    /\ IF dest = Absent
       THEN /\ dest' = temp /\ temp' = Absent /\ litter' = litter
            /\ Outcome("COMPLETED", 0)
       ELSE dest' = dest /\ Discard /\ Fail
    /\ UNCHANGED <<baks, row, user, faults>>

PublishFails ==
    /\ h.pc = "publish"
    /\ Fault
    /\ Discard
    /\ Fail
    /\ UNCHANGED <<dest, baks, row, user>>

(* ReplaceFileW: the file found there becomes the backup, whatever the     *)
(* earlier looks saw.                                                      *)
Replace ==
    /\ h.pc = "replace" /\ dest \in File
    /\ baks' = Append(baks, dest)
    /\ dest' = temp /\ temp' = Absent
    /\ Goto("attributes")
    /\ UNCHANGED <<litter, row, user, faults>>

(* Faulty variant: no answer when the file was removed meanwhile.          *)
ReplaceFailsIfPresent ==
    /\ h.pc = "replace" /\ dest \in File
    /\ Fault
    /\ Discard
    /\ Fail
    /\ UNCHANGED <<dest, baks, row, user>>

(* The call may fail before any change or with the old file already under  *)
(* the backup name; it always fails when the file is gone.                 *)
ReplaceFails ==
    /\ h.pc = "replace"
    /\ \/ dest \notin File /\ UNCHANGED <<dest, baks, faults>>
       \/ Fault /\ UNCHANGED <<dest, baks>>
       \/ Fault /\ dest \in File /\ baks' = Append(baks, dest) /\ dest' = Absent
    /\ Discard
    /\ Fail
    /\ UNCHANGED <<row, user>>

(* Faulty variant: the outcome is built without the backup.                *)
ApplyAttributesUnrecorded ==
    /\ h.pc = "attributes" /\ dest # Absent
    /\ Outcome("COMPLETED", 0)
    /\ UNCHANGED <<disk, row, user, faults>>

ApplyAttributes ==
    /\ h.pc = "attributes" /\ dest # Absent
    /\ Outcome("COMPLETED", Len(baks))
    /\ UNCHANGED <<disk, row, user, faults>>

AttributesFail ==
    /\ h.pc = "attributes"
    /\ IF dest = Absent THEN UNCHANGED faults ELSE Fault
    /\ Goto("rollback")
    /\ UNCHANGED <<disk, row, user>>

(* Faulty variant: the rollback drops the backup instead of installing it. *)
RollbackDropsBackup ==
    /\ h.pc = "rollback" /\ dest \in File
    /\ temp' = dest
    /\ dest' = Absent
    /\ baks' = [baks EXCEPT ![Len(baks)] = Absent]
    /\ Goto("drop")
    /\ UNCHANGED <<litter, row, user, faults>>

(* ReplaceFileW(destination, backup, temp): the backup returns and what    *)
(* the destination holds now goes under the temporary name.                *)
Rollback ==
    /\ h.pc = "rollback" /\ dest \in File
    /\ temp' = dest
    /\ dest' = baks[Len(baks)]
    /\ baks' = [baks EXCEPT ![Len(baks)] = Absent]
    /\ Goto("drop")
    /\ UNCHANGED <<litter, row, user, faults>>

RollbackFails ==
    /\ h.pc = "rollback"
    /\ \/ dest \notin File /\ UNCHANGED <<dest, litter, faults>>
       \/ Fault /\ UNCHANGED <<dest, litter>>
       \/ Fault /\ dest \in File /\ dest' = Absent /\ litter' = litter \cup {dest}
    /\ Fail
    /\ UNCHANGED <<temp, baks, row, user>>

(* Faulty variant: the rolled back write is reported as a success.         *)
DropRolledBackAsDone ==
    /\ h.pc = "drop"
    /\ Discard
    /\ Outcome("COMPLETED", Len(baks))
    /\ UNCHANGED <<dest, baks, row, user, faults>>

(* The new content is removed and the attribute error returned, whether or *)
(* not the original attributes could be set again.                         *)
DropRolledBack ==
    /\ h.pc = "drop"
    /\ Discard
    /\ Fail
    /\ UNCHANGED <<dest, baks, row, user, faults>>

(* Faulty variant: the next backup is recorded instead of the last one.    *)
RecordMislabelled ==
    /\ h.pc = "record"
    /\ row' = [h.out EXCEPT !.backup = Len(baks) + 1]
    /\ h' = Idle
    /\ UNCHANGED <<disk, user, faults>>

Record ==
    /\ h.pc = "record"
    /\ row' = h.out
    /\ h' = Idle
    /\ UNCHANGED <<disk, user, faults>>

(* Crash, and the recovery of the row when the journal is next opened.     *)
Crash ==
    /\ h.pc # "idle"
    /\ Fault
    /\ h' = Idle
    /\ row' = IF row.state = "RUNNING" THEN [row EXCEPT !.state = "INTERRUPTED"] ELSE row
    /\ temp' = Absent
    /\ litter' = IF temp = Absent THEN litter ELSE litter \cup {temp}
    /\ UNCHANGED <<dest, baks, user>>

-----------------------------------------------------------------------------
(* The user and other programs.                                            *)
Edit(e) ==
    /\ edits < MaxEdits /\ e \notin owned
    /\ dest # Other
    /\ dest' = (IF dest = Absent THEN {} ELSE dest) \cup {e}
    /\ owned' = owned \cup {e}
    /\ edits' = edits + 1
    /\ UNCHANGED <<temp, baks, litter, row, h, faults>>

Remove ==
    /\ edits < MaxEdits /\ dest # Absent
    /\ dest' = Absent
    /\ owned' = IF dest = Other THEN owned ELSE owned \ dest
    /\ edits' = edits + 1
    /\ UNCHANGED <<temp, baks, litter, row, h, faults>>

MakeOther ==
    /\ edits < MaxEdits /\ dest = Absent
    /\ dest' = Other
    /\ edits' = edits + 1
    /\ UNCHANGED <<temp, baks, litter, row, h, owned, faults>>

Program ==
    \/ Probe \/ MarkRunning \/ Inspect \/ MergeConflict \/ ArtifactFails \/ PathFails
    \/ CreateTempFile \/ Stream \/ StreamFails \/ Choose
    \/ Publish \/ PublishFails \/ Replace \/ ReplaceFails
    \/ ApplyAttributes \/ AttributesFail \/ Rollback \/ RollbackFails
    \/ DropRolledBack \/ Record

User == (\E e \in Edits : Edit(e)) \/ Remove \/ MakeOther

Next == (Program \/ Crash \/ User) /\ UNCHANGED mode

Spec == Init /\ [][Next]_vars

-----------------------------------------------------------------------------
Held(files) == UNION {f \in files : f \in File}
Backups == {baks[i] : i \in DOMAIN baks}

(* What the destination held before the restore stays on disk, in place or *)
(* as a backup, through failed calls, rollbacks, crashes and concurrent    *)
(* edits, unless the user removes it: atomic_replace never destroys it.    *)
OriginalRetained == owned \cap Original \subseteq Held({dest} \cup Backups)

(* A reader of the destination, or of a backup, sees whole files: never a  *)
(* partly streamed artifact.                                               *)
WholeFiles == "half" \notin Held({dest} \cup Backups)

(* A backup the journal names is a file that is still there, although a    *)
(* rollback consumes backups.                                              *)
RecordedBackupExists == row.backup # 0 => row.backup \in DOMAIN baks /\ baks[row.backup] \in File

(* An attempt that replaced a file and completes records exactly the       *)
(* backup it made; one that created the file records none.                 *)
CompletionRecordsBackup ==
    row' # row /\ row'.state = "COMPLETED"
      => row'.backup = (IF Len(baks) > h.base THEN Len(baks) ELSE 0)

(***************************************************************************)
(* Said by the code or its documents, and not kept (see the README)        *)
(***************************************************************************)
(* docs/recovery.md: the original of a replaced destination is recorded in *)
(* the operation result.  Not so when the record is lost to a crash.       *)
ReplacedIsRecorded ==
    row.state \in Done /\ (\E i \in DOMAIN baks : baks[i] \in File) => row.backup # 0

(* handlers_files.rs: create-only rejects a racing target.                 *)
CreateOnlyRejects == mode = "CREATE_ONLY" => baks = <<>>

(* The implementation specification: no overwrite without backup, no       *)
(* deletion of target data.                                                *)
NothingLost == owned \subseteq Held({dest} \cup Backups)
=============================================================================
