--------------------------- MODULE HandlerProofs ---------------------------
(***************************************************************************)
(* Safety of the handlers that write files, of atomic_replace below them,  *)
(* of the handlers for subsystems, the user's environment, MCP servers and *)
(* browser profiles, of the staging of archives and of the installation of *)
(* packages, for any operations and any number of failed calls, killed     *)
(* attempts and acts of the user and other programs.                       *)
(*                                                                         *)
(* The argument for files.  ReplaceFileW moves whatever it finds under the *)
(* backup name, so from there to the record or the rollback the backups    *)
(* alone hold every original line that the user kept (Contents); a         *)
(* rollback puts the backup it consumes back in place.  The row names no   *)
(* backup while an attempt is under way (Attempt), so the rollback never   *)
(* consumes one that the journal names.  The other handlers need less:     *)
(* what the stage of an attempt says of the machine, the profile, the      *)
(* document or the variable it read (SubsystemInv, ProfileInv,             *)
(* RegistrationInv, EnvironmentInv, InstallInv).  A staged archive is the  *)
(* concatenation of the chunks that its manifest has named so far, at the  *)
(* place where a comparison would read them (PayloadInv).                  *)
(***************************************************************************)
EXTENDS MCHandlers, FiniteSetTheorems, SequenceTheorems, WellFoundedInduction, TLAPS

-----------------------------------------------------------------------------
(* The inductive invariant.                                                *)

Whole(f) == "half" \notin f
Replacing == {"inspect", "temp", "stream", "choose", "publish", "replace"}

(* The stage of the attempt against the journal row and the backups.       *)
Attempt ==
    /\ h.pc # "idle" => row.state \notin Done
    /\ row.backup # 0 => row.state = "COMPLETED"
    /\ h.pc \in Replacing => Len(baks) = h.base
    /\ h.pc \in {"attributes", "rollback"} =>
          Len(baks) = h.base + 1 /\ baks[Len(baks)] \in File
    /\ h.pc = "record" =>
          IF h.out.state = "COMPLETED"
          THEN /\ h.out.backup = (IF Len(baks) > h.base THEN Len(baks) ELSE 0)
               /\ h.out.backup # 0 => baks[h.out.backup] \in File
          ELSE h.out.backup = 0

(* What the process has read and written, and what the backups hold while  *)
(* its replacement is in place.                                            *)
Contents ==
    /\ Whole(h.read)
    /\ h.pc \in {"stream", "choose", "publish", "replace", "drop"} => temp \in File
    /\ h.pc \in {"choose", "publish", "replace"} => Whole(temp)
    /\ h.pc \in {"attributes", "rollback"} => owned \cap Original \subseteq Held(Backups)

FileInv ==
    /\ FileTypeOK /\ Attempt /\ Contents
    /\ OriginalRetained /\ WholeFiles /\ RecordedBackupExists

RowType(n) ==
    [state : {"PENDING", "RUNNING", "COMPLETED", "SKIPPED", "FAILED",
              "WAITING_FOR_USER", "INTERRUPTED"},
     backup : 0..n]
HandlerType(n) == [pc : Labels, read : File \cup {Absent}, base : 0..n, out : RowType(n)]

-----------------------------------------------------------------------------
(* Contents of files.                                                      *)

(* No file and other objects are told apart from every file.               *)
LEMMA FileFacts ==
    /\ Absent \notin File /\ Other \notin File /\ Absent # Other
    /\ Half \in File /\ Package \in File /\ Original \in File
    /\ Whole(Package) /\ Whole(Original) /\ Whole(Absent) /\ \A e \in Edits : e # "half"
    /\ Edits \subseteq Lines /\ Original \cap Edits = {}
  BY FileAssumption DEF Absent, Other, Half, File, Lines, Whole

LEMMA HeldMember ==
    ASSUME NEW S, NEW x
    PROVE  x \in Held(S) <=> \E f \in S : f \in File /\ x \in f
  BY DEF Held

(* What is read and merged is whole when the destination was.              *)
LEMMA WantedFacts ==
    ASSUME NEW f \in File \cup {Absent}, Whole(f)
    PROVE  Wanted(f) \in File /\ Whole(Wanted(f))
  BY FileFacts DEF Wanted, File, Whole

(* A whole destination, unpacked.                                          *)
LEMMA WholeFacts ==
    ASSUME WholeFiles
    PROVE  /\ dest \in File => Whole(dest)
           /\ \A i \in DOMAIN baks : baks[i] \in File => Whole(baks[i])
  BY HeldMember DEF WholeFiles, Backups, Whole

LEMMA MakeWhole ==
    ASSUME dest' \in File => Whole(dest'),
           \A i \in DOMAIN baks' : baks'[i] \in File => Whole(baks'[i])
    PROVE  WholeFiles'
  <1> SUFFICES ASSUME "half" \in Held({dest'} \cup Backups') PROVE FALSE
    BY DEF WholeFiles
  <1>1. PICK f \in {dest'} \cup Backups' : f \in File /\ "half" \in f
    BY HeldMember
  <1> QED
    BY <1>1 DEF Backups, Whole

(* A step that keeps every file that held original lines.                  *)
LEMMA MakeRetained ==
    ASSUME OriginalRetained,
           owned' \cap Original \subseteq owned,
           \A f \in {dest} \cup Backups :
              f \in File => owned' \cap f \cap Original \subseteq Held({dest'} \cup Backups')
    PROVE  OriginalRetained'
  <1> SUFFICES ASSUME NEW x \in owned' \cap Original PROVE x \in Held({dest'} \cup Backups')
    BY DEF OriginalRetained
  <1>1. x \in Held({dest} \cup Backups)
    BY DEF OriginalRetained
  <1>2. PICK f \in {dest} \cup Backups : f \in File /\ x \in f
    BY <1>1, HeldMember
  <1> QED
    BY <1>2

-----------------------------------------------------------------------------
(* The record of the process.                                              *)

LEMMA TypeFacts ==
    ASSUME FileTypeOK
    PROVE  /\ Len(baks) \in Nat /\ DOMAIN baks = 1..Len(baks)
           /\ row \in RowType(Len(baks)) /\ h \in HandlerType(Len(baks))
           /\ \A n \in Nat : n >= Len(baks) => row \in RowType(n) /\ h \in HandlerType(n)
  <1>1. Len(baks) \in Nat /\ DOMAIN baks = 1..Len(baks)
    BY DEF FileTypeOK
  <1>2. row \in RowType(Len(baks)) /\ h \in HandlerType(Len(baks))
    BY DEF FileTypeOK, Row, RowType, HandlerType
  <1>3. ASSUME NEW n \in Nat, n >= Len(baks) PROVE row \in RowType(n) /\ h \in HandlerType(n)
    <2>1. 0..Len(baks) \subseteq 0..n
      BY <1>1, <1>3
    <2>2. RowType(Len(baks)) \subseteq RowType(n)
      BY <2>1 DEF RowType
    <2> QED
      BY <1>2, <2>1, <2>2 DEF HandlerType
  <1> QED
    BY <1>1, <1>2, <1>3

(* The types of the next state from those of its parts.                    *)
LEMMA MakeType ==
    ASSUME FileTypeOK, mode' = mode,
           dest' \in File \cup {Absent, Other}, temp' \in File \cup {Absent},
           baks' \in Seq(File \cup {Absent}), litter' \subseteq File,
           row' \in RowType(Len(baks')), h' \in HandlerType(Len(baks')),
           owned' \subseteq Original \cup Edits,
           faults' \in 0..MaxFaults, edits' \in 0..MaxEdits
    PROVE  FileTypeOK'
  BY DEF FileTypeOK, Row, RowType, HandlerType

LEMMA FaultFacts ==
    ASSUME FileTypeOK, Fault
    PROVE  faults' \in 0..MaxFaults
  BY FileAssumption DEF FileTypeOK, Fault

LEMMA GotoFacts ==
    ASSUME NEW n \in Nat, h \in HandlerType(n), NEW label \in Labels, Goto(label)
    PROVE  /\ h' \in HandlerType(n) /\ h'.pc = label /\ h'.read = h.read
           /\ h'.base = h.base /\ h'.out = h.out
  BY DEF HandlerType, Goto

LEMMA OutcomeFacts ==
    ASSUME NEW n \in Nat, h \in HandlerType(n), NEW b \in 0..n,
           NEW state \in {"COMPLETED", "SKIPPED", "FAILED", "WAITING_FOR_USER"},
           Outcome(state, b)
    PROVE  /\ h' \in HandlerType(n) /\ h'.pc = "record" /\ h'.read = h.read
           /\ h'.base = h.base /\ h'.out.state = state /\ h'.out.backup = b
  BY DEF HandlerType, Outcome, RowType, Labels

LEMMA FailFacts ==
    ASSUME NEW n \in Nat, h \in HandlerType(n), Fail
    PROVE  /\ h' \in HandlerType(n) /\ h'.pc = "record" /\ h'.read = h.read
           /\ h'.base = h.base /\ h'.out.state = "FAILED" /\ h'.out.backup = 0
  BY OutcomeFacts DEF Fail

LEMMA DiscardFacts ==
    ASSUME FileInv, Discard, h.pc \in {"stream", "choose", "publish", "replace", "drop"}
    PROVE  temp' = Absent /\ temp' \in File \cup {Absent} /\ litter' \subseteq File
  BY DEF FileInv, Contents, FileTypeOK, Discard

-----------------------------------------------------------------------------
(* The steps that leave the files alone.                                   *)

(* Only the record of the process moves: what must be shown of it.         *)
LEMMA QuietHandler ==
    ASSUME FileInv, mode' = mode, UNCHANGED <<dest, baks, row, user>>,
           temp' \in File \cup {Absent}, litter' \subseteq File,
           faults' \in 0..MaxFaults, h' \in HandlerType(Len(baks)),
           Attempt', Whole(h'.read),
           h'.pc \in {"stream", "choose", "publish", "replace", "drop"} => temp' \in File,
           h'.pc \in {"choose", "publish", "replace"} => Whole(temp'),
           h'.pc \in {"attributes", "rollback"} => h.pc \in {"attributes", "rollback"}
    PROVE  FileInv'
  <1>1. FileTypeOK'
    <2>1. row \in RowType(Len(baks)) /\ owned' = owned /\ edits' = edits
      BY TypeFacts DEF FileInv, user
    <2> QED
      BY <2>1, MakeType DEF FileInv, FileTypeOK
  <1>2. Contents'
    BY DEF FileInv, Contents, Held, Backups, user
  <1>3. OriginalRetained' /\ WholeFiles' /\ RecordedBackupExists'
    BY DEF FileInv, OriginalRetained, WholeFiles, RecordedBackupExists, Held, Backups, user
  <1> QED
    BY <1>1, <1>2, <1>3 DEF FileInv

(* Ending an attempt, or a visit, with an error or a skip.                 *)
LEMMA EndsWithout ==
    ASSUME FileInv, mode' = mode, UNCHANGED <<dest, baks, row, user>>,
           temp' \in File \cup {Absent}, litter' \subseteq File,
           faults' \in 0..MaxFaults, h.pc # "idle" \/ row.state \notin Done,
           NEW state \in {"SKIPPED", "FAILED", "WAITING_FOR_USER"}, Outcome(state, 0)
    PROVE  FileInv'
  <1>1. /\ h' \in HandlerType(Len(baks)) /\ h'.pc = "record" /\ h'.read = h.read
        /\ h'.base = h.base /\ h'.out.state = state /\ h'.out.backup = 0
    <2>1. Len(baks) \in Nat /\ h \in HandlerType(Len(baks)) /\ 0 \in 0..Len(baks)
      BY TypeFacts DEF FileInv
    <2> QED
      BY <2>1, OutcomeFacts
  <1>2. Attempt'
    BY <1>1 DEF FileInv, Attempt, Replacing
  <1>3. Whole(h'.read)
    BY <1>1 DEF FileInv, Contents
  <1> QED
    BY <1>1, <1>2, <1>3, QuietHandler

(* Going on to the next call.                                              *)
LEMMA GoesOn ==
    ASSUME FileInv, mode' = mode, UNCHANGED <<disk, row, user>>,
           faults' \in 0..MaxFaults, h.pc # "idle" \/ row.state \notin Done,
           NEW label \in {"mark", "publish", "replace", "rollback"}, Goto(label),
           label \in {"publish", "replace"} => h.pc = "choose",
           label = "rollback" => h.pc = "attributes"
    PROVE  FileInv'
  <1>1. /\ h' \in HandlerType(Len(baks)) /\ h'.pc = label /\ h'.read = h.read
        /\ h'.base = h.base /\ h'.out = h.out
    BY TypeFacts, GotoFacts DEF FileInv, Labels
  <1>2. UNCHANGED <<dest, temp, baks, litter>>
    BY DEF disk
  <1>3. Attempt'
    BY <1>1, <1>2 DEF FileInv, Attempt, Replacing
  <1>4. Whole(h'.read)
    BY <1>1 DEF FileInv, Contents
  <1>5. temp' \in File \cup {Absent} /\ litter' \subseteq File
    BY <1>2 DEF FileInv, FileTypeOK
  <1>6. h'.pc \in {"publish", "replace"} => temp' \in File /\ Whole(temp')
    BY <1>1, <1>2 DEF FileInv, Contents
  <1>7. h'.pc \notin {"stream", "choose", "drop", "attributes"}
    BY <1>1
  <1> QED
    BY <1>1, <1>2, <1>3, <1>4, <1>5, <1>6, <1>7, QuietHandler

LEMMA ProbeKeeps ==
    ASSUME FileInv, mode' = mode, Probe
    PROVE  FileInv'
  <1>1. UNCHANGED <<disk, row, user, faults>> /\ row.state \notin Done
    BY DEF Probe
  <1>2. /\ UNCHANGED <<dest, temp, baks, litter>> /\ faults' \in 0..MaxFaults
        /\ temp' \in File \cup {Absent} /\ litter' \subseteq File
    BY <1>1 DEF disk, FileInv, FileTypeOK
  <1>3. Outcome("FAILED", 0) \/ Outcome("SKIPPED", 0) \/ Goto("mark")
    BY DEF Probe, Fail
  <1> QED
    BY <1>1, <1>2, <1>3, EndsWithout, GoesOn

(* A step that fails without having touched a file.                        *)
LEMMA FailsEarly ==
    ASSUME FileInv, mode' = mode, h.pc # "idle", Fault,
           Outcome("FAILED", 0) \/ Outcome("WAITING_FOR_USER", 0), UNCHANGED <<disk, row, user>>
    PROVE  FileInv'
  <1>1. /\ UNCHANGED <<dest, temp, baks, litter>> /\ faults' \in 0..MaxFaults
        /\ temp' \in File \cup {Absent} /\ litter' \subseteq File
    BY FaultFacts DEF disk, FileInv, FileTypeOK
  <1> QED
    BY <1>1, EndsWithout

LEMMA EarlyFailuresKeep ==
    ASSUME FileInv, mode' = mode, MergeConflict \/ ArtifactFails \/ PathFails
    PROVE  FileInv'
  BY FailsEarly DEF MergeConflict, ArtifactFails, PathFails, Fail

LEMMA MarkRunningKeeps ==
    ASSUME FileInv, mode' = mode, MarkRunning
    PROVE  FileInv'
  <1>1. /\ UNCHANGED <<dest, temp, baks, litter, owned, edits, faults>>
        /\ row' = [state |-> "RUNNING", backup |-> 0]
        /\ h' = [h EXCEPT !.pc = "inspect", !.base = Len(baks)]
    BY DEF MarkRunning, disk, user
  <1>2. Len(baks) \in Nat /\ h \in HandlerType(Len(baks))
    BY TypeFacts DEF FileInv
  <1>3. row' \in RowType(Len(baks)) /\ row'.backup = 0 /\ row'.state = "RUNNING"
    BY <1>1, <1>2 DEF RowType
  <1>4. /\ h' \in HandlerType(Len(baks)) /\ h'.pc = "inspect" /\ h'.base = Len(baks)
        /\ h'.read = h.read
    <2>1. "inspect" \in Labels /\ Len(baks) \in 0..Len(baks)
      BY <1>2 DEF Labels
    <2> QED
      BY <1>1, <1>2, <2>1 DEF HandlerType
  <1>5. FileTypeOK'
    BY <1>1, <1>3, <1>4, MakeType DEF FileInv, FileTypeOK
  <1>6. Attempt'
    BY <1>1, <1>3, <1>4 DEF Attempt, Done, Replacing
  <1>7. Contents'
    BY <1>1, <1>4 DEF FileInv, Contents
  <1>8. OriginalRetained' /\ WholeFiles' /\ RecordedBackupExists'
    BY <1>1, <1>3 DEF FileInv, OriginalRetained, WholeFiles, RecordedBackupExists, Held, Backups
  <1> QED
    BY <1>5, <1>6, <1>7, <1>8 DEF FileInv

LEMMA InspectKeeps ==
    ASSUME FileInv, mode' = mode, Inspect
    PROVE  FileInv'
  <1>1. UNCHANGED <<disk, row, user, faults>> /\ h.pc = "inspect"
    BY DEF Inspect
  <1>2. /\ UNCHANGED <<dest, temp, baks, litter>> /\ faults' \in 0..MaxFaults
        /\ temp' \in File \cup {Absent} /\ litter' \subseteq File
    BY <1>1 DEF disk, FileInv, FileTypeOK
  <1>3. CASE Outcome("FAILED", 0) \/ Outcome("SKIPPED", 0)
    BY <1>1, <1>2, <1>3, EndsWithout
  <1>4. CASE dest # Other /\ h' = [h EXCEPT !.pc = "temp", !.read = dest]
    <2>1. h \in HandlerType(Len(baks)) /\ dest \in File \cup {Absent} /\ Whole(dest)
      BY <1>4, TypeFacts, WholeFacts, FileFacts DEF FileInv, FileTypeOK
    <2>2. /\ h' \in HandlerType(Len(baks)) /\ h'.pc = "temp" /\ h'.read = dest
          /\ h'.base = h.base
      BY <1>4, <2>1 DEF HandlerType, Labels
    <2>3. Attempt'
      BY <1>1, <1>2, <2>2 DEF FileInv, Attempt, Replacing
    <2> QED
      BY <1>1, <1>2, <2>1, <2>2, <2>3, QuietHandler
  <1> QED
    BY <1>3, <1>4 DEF Inspect, Fail

LEMMA CreateTempFileKeeps ==
    ASSUME FileInv, mode' = mode, CreateTempFile
    PROVE  FileInv'
  <1>1. /\ h.pc = "temp" /\ temp' = Half /\ Goto("stream")
        /\ UNCHANGED <<dest, baks, litter, row, user, faults>>
    BY DEF CreateTempFile
  <1>2. /\ h' \in HandlerType(Len(baks)) /\ h'.pc = "stream" /\ h'.read = h.read
        /\ h'.base = h.base /\ h'.out = h.out
    BY <1>1, TypeFacts, GotoFacts DEF FileInv, Labels
  <1>3. temp' \in File /\ litter' \subseteq File /\ faults' \in 0..MaxFaults /\ Whole(h'.read)
    BY <1>1, <1>2, FileFacts DEF FileInv, FileTypeOK, Contents
  <1>4. Attempt'
    BY <1>1, <1>2 DEF FileInv, Attempt, Replacing
  <1> QED
    BY <1>1, <1>2, <1>3, <1>4, QuietHandler

LEMMA StreamKeeps ==
    ASSUME FileInv, mode' = mode, Stream
    PROVE  FileInv'
  <1>1. /\ h.pc = "stream" /\ temp' = Wanted(h.read) /\ Goto("choose")
        /\ UNCHANGED <<dest, baks, litter, row, user, faults>>
    BY DEF Stream
  <1>2. /\ h' \in HandlerType(Len(baks)) /\ h'.pc = "choose" /\ h'.read = h.read
        /\ h'.base = h.base /\ h'.out = h.out
    BY <1>1, TypeFacts, GotoFacts DEF FileInv, Labels
  <1>3. litter' \subseteq File /\ faults' \in 0..MaxFaults /\ Whole(h'.read)
    BY <1>1, <1>2 DEF FileInv, FileTypeOK, Contents
  <1>4. temp' \in File /\ Whole(temp')
    BY <1>1, WantedFacts DEF FileInv, FileTypeOK, Contents
  <1>5. Attempt'
    BY <1>1, <1>2 DEF FileInv, Attempt, Replacing
  <1> QED
    BY <1>1, <1>2, <1>3, <1>4, <1>5, QuietHandler

(* A failure after the temporary file was made drops it.                   *)
LEMMA FailsDiscarding ==
    ASSUME FileInv, mode' = mode, h.pc \in {"stream", "choose", "publish", "replace", "drop"},
           Discard, Fail, UNCHANGED <<dest, baks, row, user>>,
           Fault \/ faults' = faults
    PROVE  FileInv'
  <1>1. temp' \in File \cup {Absent} /\ litter' \subseteq File /\ faults' \in 0..MaxFaults
    BY DiscardFacts, FaultFacts DEF FileInv, FileTypeOK
  <1> QED
    BY <1>1, EndsWithout DEF Fail

LEMMA ChooseKeeps ==
    ASSUME FileInv, mode' = mode, Choose
    PROVE  FileInv'
  <1>1. h.pc = "choose" /\ UNCHANGED <<dest, baks, row, user, faults>>
    BY DEF Choose
  <1>2. CASE dest = Other
    BY <1>1, <1>2, FailsDiscarding DEF Choose
  <1>3. CASE dest # Other
    <2>1. UNCHANGED <<disk, row, user>> /\ (Goto("publish") \/ Goto("replace"))
      BY <1>1, <1>3 DEF Choose, disk
    <2>2. faults' \in 0..MaxFaults
      BY <1>1 DEF FileInv, FileTypeOK
    <2> QED
      BY <1>1, <2>1, <2>2, GoesOn
  <1> QED
    BY <1>2, <1>3

LEMMA DropsKeep ==
    ASSUME FileInv, mode' = mode, StreamFails \/ PublishFails \/ DropRolledBack
    PROVE  FileInv'
  BY FailsDiscarding DEF StreamFails, PublishFails, DropRolledBack

-----------------------------------------------------------------------------
(* The steps that move files.                                              *)

(* A failing outcome of an attempt is well formed whatever the backups are. *)
LEMMA FailedAttempt ==
    ASSUME FileInv, h.pc # "idle", row' = row, h'.pc = "record",
           h'.out.state = "FAILED", h'.out.backup = 0
    PROVE  Attempt'
  BY DEF FileInv, Attempt, Replacing

(* Files that are added to, and the row: what moving files must establish. *)
LEMMA RowKeepsBackup ==
    ASSUME FileInv, row' = row,
           \A i \in DOMAIN baks : i \in DOMAIN baks' /\ baks'[i] = baks[i]
    PROVE  RecordedBackupExists'
  BY DEF FileInv, RecordedBackupExists

LEMMA PublishKeeps ==
    ASSUME FileInv, mode' = mode, Publish
    PROVE  FileInv'
  <1>1. h.pc = "publish" /\ UNCHANGED <<baks, row, user, faults>>
    BY DEF Publish
  <1>2. CASE dest # Absent
    BY <1>1, <1>2, FailsDiscarding DEF Publish
  <1>3. CASE dest = Absent
    <2>1. /\ dest' = temp /\ temp' = Absent /\ litter' = litter /\ Outcome("COMPLETED", 0)
          /\ owned' = owned /\ edits' = edits
      BY <1>1, <1>3 DEF Publish, user
    <2>2. Len(baks) \in Nat /\ h \in HandlerType(Len(baks)) /\ 0 \in 0..Len(baks)
      BY TypeFacts DEF FileInv
    <2>3. /\ h' \in HandlerType(Len(baks)) /\ h'.pc = "record" /\ h'.read = h.read
          /\ h'.base = h.base /\ h'.out.state = "COMPLETED" /\ h'.out.backup = 0
      BY <2>1, <2>2, OutcomeFacts
    <2>4. temp \in File /\ Whole(temp) /\ Whole(h.read) /\ Len(baks) = h.base
      BY <1>1 DEF FileInv, Contents, Attempt, Replacing
    <2>5. FileTypeOK'
      <3>1. row \in RowType(Len(baks))
        BY TypeFacts DEF FileInv
      <3> QED
        BY <1>1, <2>1, <2>3, <2>4, <3>1, MakeType DEF FileInv, FileTypeOK
    <2>6. Attempt'
      BY <1>1, <2>2, <2>3, <2>4 DEF FileInv, Attempt, Replacing
    <2>7. Contents'
      BY <2>3, <2>4 DEF Contents
    <2>8. WholeFiles'
      BY <1>1, <2>1, <2>4, WholeFacts, MakeWhole DEF FileInv
    <2>9. OriginalRetained'
      <3>1. Backups' = Backups
        BY <1>1 DEF Backups
      <3>2. dest \notin File
        BY <1>3, FileFacts
      <3> QED
        BY <2>1, <3>1, <3>2, HeldMember, MakeRetained DEF FileInv
    <2>10. RecordedBackupExists'
      BY <1>1, RowKeepsBackup
    <2> QED
      BY <2>5, <2>6, <2>7, <2>8, <2>9, <2>10 DEF FileInv
  <1> QED
    BY <1>2, <1>3

(* The destination has become the last backup.                             *)
LEMMA BackedUp ==
    ASSUME FileInv, dest \in File, baks' = Append(baks, dest)
    PROVE  /\ baks' \in Seq(File \cup {Absent}) /\ Len(baks') = Len(baks) + 1
           /\ Len(baks) \in Nat
           /\ DOMAIN baks' = 1..(Len(baks) + 1) /\ baks'[Len(baks')] = dest
           /\ \A i \in DOMAIN baks : i \in DOMAIN baks' /\ baks'[i] = baks[i]
           /\ \A i \in DOMAIN baks' : baks'[i] \in File => Whole(baks'[i])
           /\ row \in RowType(Len(baks')) /\ h \in HandlerType(Len(baks'))
           /\ {dest} \cup Backups \subseteq Backups'
  <1>1. baks \in Seq(File \cup {Absent}) /\ Len(baks) \in Nat /\ DOMAIN baks = 1..Len(baks)
    BY DEF FileInv, FileTypeOK
  <1>2. /\ baks' \in Seq(File \cup {Absent}) /\ Len(baks') = Len(baks) + 1
        /\ DOMAIN baks' = 1..(Len(baks) + 1) /\ baks'[Len(baks')] = dest
        /\ \A i \in DOMAIN baks : i \in DOMAIN baks' /\ baks'[i] = baks[i]
    BY <1>1
  <1>3. \A i \in DOMAIN baks' : baks'[i] \in File => Whole(baks'[i])
    <2>1. Whole(dest) /\ \A i \in DOMAIN baks : baks[i] \in File => Whole(baks[i])
      BY WholeFacts DEF FileInv
    <2>2. \A i \in DOMAIN baks' : i \in DOMAIN baks \/ i = Len(baks')
      BY <1>1, <1>2
    <2> QED
      BY <1>2, <2>1, <2>2
  <1>4. row \in RowType(Len(baks')) /\ h \in HandlerType(Len(baks'))
    <2>1. Len(baks') \in Nat /\ Len(baks') >= Len(baks)
      BY <1>1, <1>2
    <2> QED
      BY <2>1, TypeFacts DEF FileInv
  <1>5. {dest} \cup Backups \subseteq Backups'
    <2>1. Len(baks') \in DOMAIN baks'
      BY <1>1, <1>2
    <2> QED
      BY <1>2, <2>1 DEF Backups
  <1> QED
    BY <1>1, <1>2, <1>3, <1>4, <1>5

(* The backups then hold what the destination and the backups held.        *)
LEMMA HeldByBackups ==
    ASSUME FileInv, {dest} \cup Backups \subseteq Backups', owned' = owned
    PROVE  owned' \cap Original \subseteq Held(Backups') /\ OriginalRetained'
  <1>1. ASSUME NEW x \in owned' \cap Original PROVE x \in Held(Backups')
    <2>1. x \in Held({dest} \cup Backups)
      BY DEF FileInv, OriginalRetained
    <2> QED
      BY <2>1, HeldMember
  <1>2. Held(Backups') \subseteq Held({dest'} \cup Backups')
    BY HeldMember
  <1> QED
    BY <1>1, <1>2 DEF OriginalRetained

LEMMA ReplaceKeeps ==
    ASSUME FileInv, mode' = mode, Replace
    PROVE  FileInv'
  <1>1. /\ h.pc = "replace" /\ dest \in File /\ baks' = Append(baks, dest) /\ dest' = temp
        /\ temp' = Absent /\ Goto("attributes")
        /\ UNCHANGED <<litter, row, owned, edits, faults>>
    BY DEF Replace, user
  <1>2. temp \in File /\ Whole(temp) /\ Whole(h.read) /\ Len(baks) = h.base
    BY <1>1 DEF FileInv, Contents, Attempt, Replacing
  <1>3. /\ baks' \in Seq(File \cup {Absent}) /\ Len(baks') = Len(baks) + 1
        /\ Len(baks) \in Nat
        /\ baks'[Len(baks')] = dest
        /\ \A i \in DOMAIN baks : i \in DOMAIN baks' /\ baks'[i] = baks[i]
        /\ \A i \in DOMAIN baks' : baks'[i] \in File => Whole(baks'[i])
        /\ row \in RowType(Len(baks')) /\ h \in HandlerType(Len(baks'))
        /\ {dest} \cup Backups \subseteq Backups'
    BY <1>1, BackedUp
  <1>4. /\ h' \in HandlerType(Len(baks')) /\ h'.pc = "attributes" /\ h'.read = h.read
        /\ h'.base = h.base /\ h'.out = h.out
    BY <1>1, <1>3, GotoFacts DEF Labels
  <1>5. FileTypeOK'
    BY <1>1, <1>2, <1>3, <1>4, MakeType DEF FileInv, FileTypeOK
  <1>6. Attempt'
    BY <1>1, <1>2, <1>3, <1>4 DEF FileInv, Attempt, Replacing
  <1>7. owned' \cap Original \subseteq Held(Backups') /\ OriginalRetained'
    BY <1>1, <1>3, HeldByBackups
  <1>8. Contents'
    BY <1>2, <1>4, <1>7 DEF Contents
  <1>9. WholeFiles'
    BY <1>1, <1>2, <1>3, MakeWhole
  <1>10. RecordedBackupExists'
    BY <1>1, <1>3, RowKeepsBackup
  <1> QED
    BY <1>5, <1>6, <1>7, <1>8, <1>9, <1>10 DEF FileInv

LEMMA ReplaceFailsKeeps ==
    ASSUME FileInv, mode' = mode, ReplaceFails
    PROVE  FileInv'
  <1>1. h.pc = "replace" /\ Discard /\ Fail /\ UNCHANGED <<row, user>>
    BY DEF ReplaceFails
  <1>2. CASE UNCHANGED <<dest, baks>> /\ (Fault \/ faults' = faults)
    BY <1>1, <1>2, FailsDiscarding
  <1>3. CASE Fault /\ dest \in File /\ baks' = Append(baks, dest) /\ dest' = Absent
    <2>1. temp' = Absent /\ litter' \subseteq File /\ faults' \in 0..MaxFaults
      BY <1>1, <1>3, DiscardFacts, FaultFacts DEF FileInv
    <2>2. /\ baks' \in Seq(File \cup {Absent}) /\ Len(baks') = Len(baks) + 1
          /\ Len(baks) \in Nat
          /\ \A i \in DOMAIN baks : i \in DOMAIN baks' /\ baks'[i] = baks[i]
          /\ \A i \in DOMAIN baks' : baks'[i] \in File => Whole(baks'[i])
          /\ row \in RowType(Len(baks')) /\ h \in HandlerType(Len(baks'))
          /\ {dest} \cup Backups \subseteq Backups'
      BY <1>3, BackedUp
    <2>3. /\ h' \in HandlerType(Len(baks')) /\ h'.pc = "record" /\ h'.read = h.read
          /\ h'.out.state = "FAILED" /\ h'.out.backup = 0
      BY <1>1, <2>2, FailFacts
    <2>4. UNCHANGED <<row, owned, edits>> /\ Whole(h.read)
      BY <1>1 DEF user, FileInv, Contents
    <2>5. FileTypeOK'
      BY <1>3, <2>1, <2>2, <2>3, <2>4, MakeType DEF FileInv, FileTypeOK
    <2>6. Attempt'
      BY <1>1, <2>3, <2>4, FailedAttempt
    <2>7. Contents'
      BY <2>3, <2>4 DEF Contents
    <2>8. OriginalRetained'
      BY <2>2, <2>4, HeldByBackups
    <2>9. WholeFiles'
      BY <1>3, <2>2, FileFacts, MakeWhole
    <2>10. RecordedBackupExists'
      BY <2>2, <2>4, RowKeepsBackup
    <2> QED
      BY <2>5, <2>6, <2>7, <2>8, <2>9, <2>10 DEF FileInv
  <1> QED
    BY <1>2, <1>3 DEF ReplaceFails

LEMMA ApplyAttributesKeeps ==
    ASSUME FileInv, mode' = mode, ApplyAttributes
    PROVE  FileInv'
  <1>1. /\ h.pc = "attributes" /\ Outcome("COMPLETED", Len(baks))
        /\ UNCHANGED <<dest, temp, baks, litter, row, user, faults>>
    BY DEF ApplyAttributes, disk
  <1>2. Len(baks) \in Nat /\ h \in HandlerType(Len(baks)) /\ Len(baks) \in 0..Len(baks)
    BY TypeFacts DEF FileInv
  <1>3. /\ h' \in HandlerType(Len(baks)) /\ h'.pc = "record" /\ h'.read = h.read
        /\ h'.base = h.base /\ h'.out.state = "COMPLETED" /\ h'.out.backup = Len(baks)
    BY <1>1, <1>2, OutcomeFacts
  <1>4. Len(baks) = h.base + 1 /\ baks[Len(baks)] \in File /\ h.base \in Nat
    BY <1>1, <1>2 DEF FileInv, Attempt, HandlerType
  <1>5. Attempt'
    BY <1>1, <1>2, <1>3, <1>4 DEF FileInv, Attempt, Replacing
  <1>6. /\ Whole(h'.read) /\ temp' \in File \cup {Absent} /\ litter' \subseteq File
        /\ faults' \in 0..MaxFaults
    BY <1>1, <1>3 DEF FileInv, Contents, FileTypeOK
  <1> QED
    BY <1>1, <1>3, <1>5, <1>6, QuietHandler

LEMMA AttributesFailKeeps ==
    ASSUME FileInv, mode' = mode, AttributesFail
    PROVE  FileInv'
  <1>1. h.pc = "attributes" /\ Goto("rollback") /\ UNCHANGED <<disk, row, user>>
    BY DEF AttributesFail
  <1>2. faults' \in 0..MaxFaults
    BY FaultFacts DEF AttributesFail, FileInv, FileTypeOK
  <1> QED
    BY <1>1, <1>2, GoesOn

(* The rollback consumes the backup it puts back.                          *)
LEMMA RollbackKeeps ==
    ASSUME FileInv, mode' = mode, Rollback
    PROVE  FileInv'
  <1> DEFINE n == Len(baks)
  <1>1. /\ h.pc = "rollback" /\ dest \in File /\ temp' = dest /\ dest' = baks[n]
        /\ baks' = [baks EXCEPT ![n] = Absent] /\ Goto("drop")
        /\ UNCHANGED <<litter, row, owned, edits, faults>>
    BY DEF Rollback, user
  <1>2. /\ n \in Nat /\ DOMAIN baks = 1..n /\ baks \in Seq(File \cup {Absent})
        /\ row \in RowType(n) /\ h \in HandlerType(n) /\ h.base \in Nat
    BY TypeFacts DEF FileInv, FileTypeOK, HandlerType
  <1>3. n = h.base + 1 /\ baks[n] \in File /\ Whole(h.read)
    BY <1>1 DEF FileInv, Attempt, Contents
  <1>4. n \in 1..n
    BY <1>2, <1>3
  <1>5. /\ baks' \in Seq(File \cup {Absent}) /\ Len(baks') = n /\ DOMAIN baks' = 1..n
        /\ baks'[n] = Absent /\ \A i \in 1..n : i # n => baks'[i] = baks[i]
    <2>1. /\ baks' \in Seq(File \cup {Absent}) /\ Len(baks') = n
      BY <1>1, <1>2, <1>4, ExceptSeq
    <2> QED
      BY <1>1, <1>2, <1>4, <2>1
  <1>6. /\ h' \in HandlerType(n) /\ h'.pc = "drop" /\ h'.read = h.read
        /\ h'.base = h.base /\ h'.out = h.out
    BY <1>1, <1>2, GotoFacts DEF Labels
  <1> HIDE DEF n
  <1>7. FileTypeOK'
    BY <1>1, <1>2, <1>3, <1>5, <1>6, MakeType DEF FileInv, FileTypeOK
  <1>8. Attempt'
    BY <1>1, <1>6 DEF FileInv, Attempt, Replacing
  <1>9. Contents'
    BY <1>1, <1>3, <1>6 DEF Contents
  <1>10. WholeFiles'
    <2>1. \A i \in DOMAIN baks : baks[i] \in File => Whole(baks[i])
      BY WholeFacts DEF FileInv
    <2>2. Whole(dest')
      BY <1>1, <1>2, <1>3, <1>4, <2>1
    <2>3. \A i \in DOMAIN baks' : baks'[i] \in File => Whole(baks'[i])
      BY <1>2, <1>5, <2>1, FileFacts
    <2> QED
      BY <2>2, <2>3, MakeWhole
  <1>11. OriginalRetained'
    <2> SUFFICES ASSUME NEW x \in owned' \cap Original PROVE x \in Held({dest'} \cup Backups')
      BY DEF OriginalRetained
    <2>1. x \in Held(Backups)
      BY <1>1 DEF FileInv, Contents
    <2>2. PICK f \in Backups : f \in File /\ x \in f
      BY <2>1, HeldMember
    <2>3. PICK i \in DOMAIN baks : f = baks[i]
      BY <2>2 DEF Backups
    <2>4. CASE i = n
      BY <1>1, <2>2, <2>3, <2>4, HeldMember
    <2>5. CASE i # n
      <3>1. f \in Backups'
        BY <1>2, <1>5, <2>3, <2>5 DEF Backups
      <3> QED
        BY <2>2, <3>1, HeldMember
    <2> QED
      BY <2>4, <2>5
  <1>12. RecordedBackupExists'
    <2>1. row'.backup = 0
      BY <1>1 DEF FileInv, Attempt, Done
    <2> QED
      BY <2>1 DEF RecordedBackupExists
  <1> QED
    BY <1>7, <1>8, <1>9, <1>10, <1>11, <1>12 DEF FileInv

LEMMA RollbackFailsKeeps ==
    ASSUME FileInv, mode' = mode, RollbackFails
    PROVE  FileInv'
  <1>1. h.pc = "rollback" /\ Fail /\ UNCHANGED <<temp, baks, row, owned, edits>>
    BY DEF RollbackFails, user
  <1>2. faults' \in 0..MaxFaults
    BY FaultFacts DEF RollbackFails, FileInv, FileTypeOK
  <1>3. CASE UNCHANGED <<dest, litter>>
    <2>1. temp' \in File \cup {Absent} /\ litter' \subseteq File
      BY <1>1, <1>3 DEF FileInv, FileTypeOK
    <2> QED
      BY <1>1, <1>2, <1>3, <2>1, EndsWithout DEF Fail, user
  <1>4. CASE dest \in File /\ dest' = Absent /\ litter' = litter \cup {dest}
    <2>1. Len(baks) \in Nat /\ h \in HandlerType(Len(baks)) /\ row \in RowType(Len(baks))
      BY TypeFacts DEF FileInv
    <2>2. /\ h' \in HandlerType(Len(baks)) /\ h'.pc = "record" /\ h'.read = h.read
          /\ h'.out.state = "FAILED" /\ h'.out.backup = 0
      BY <1>1, <2>1, FailFacts
    <2>3. FileTypeOK'
      BY <1>1, <1>2, <1>4, <2>1, <2>2, MakeType DEF FileInv, FileTypeOK
    <2>4. Attempt'
      BY <1>1, <2>2, FailedAttempt
    <2>5. Contents'
      BY <2>2 DEF FileInv, Contents
    <2>6. WholeFiles'
      BY <1>1, <1>4, FileFacts, WholeFacts, MakeWhole DEF FileInv
    <2>7. OriginalRetained'
      <3>1. owned' \cap Original \subseteq Held(Backups) /\ Backups' = Backups
        BY <1>1 DEF FileInv, Contents, Backups
      <3>2. Held(Backups) \subseteq Held({dest'} \cup Backups)
        BY HeldMember
      <3> QED
        BY <3>1, <3>2 DEF OriginalRetained
    <2>8. RecordedBackupExists'
      BY <1>1, RowKeepsBackup
    <2> QED
      BY <2>3, <2>4, <2>5, <2>6, <2>7, <2>8 DEF FileInv
  <1> QED
    BY <1>3, <1>4 DEF RollbackFails

-----------------------------------------------------------------------------
(* The record, the crash and the user.                                     *)

LEMMA IdleFacts ==
    ASSUME NEW n \in Nat
    PROVE  /\ Idle \in HandlerType(n) /\ Idle.pc = "idle" /\ Whole(Idle.read)
           /\ NoRow \in RowType(n) /\ NoRow.state = "PENDING" /\ NoRow.backup = 0
  <1>1. NoRow \in RowType(n) /\ NoRow.state = "PENDING" /\ NoRow.backup = 0
    BY DEF NoRow, RowType
  <1>2. /\ Idle.pc = "idle" /\ Idle.read = Absent
        /\ Idle \in HandlerType(n)
    BY <1>1 DEF Idle, HandlerType, Labels
  <1> QED
    BY <1>1, <1>2, FileFacts

(* Whenever the row changes nothing else does, and the process is idle.    *)
LEMMA BackToIdle ==
    ASSUME FileInv, mode' = mode, UNCHANGED <<dest, baks, owned, edits>>, h' = Idle,
           temp' \in File \cup {Absent}, litter' \subseteq File,
           faults' \in 0..MaxFaults, row' \in RowType(Len(baks)),
           row'.backup # 0 => row'.state = "COMPLETED",
           RecordedBackupExists'
    PROVE  FileInv'
  <1>1. Len(baks) \in Nat
    BY TypeFacts DEF FileInv
  <1>2. h' \in HandlerType(Len(baks)) /\ h'.pc = "idle" /\ Whole(h'.read)
    BY <1>1, IdleFacts
  <1>3. FileTypeOK'
    BY <1>2, MakeType DEF FileInv, FileTypeOK
  <1>4. Attempt' /\ Contents'
    BY <1>2 DEF Attempt, Contents, Replacing
  <1>5. OriginalRetained' /\ WholeFiles'
    BY DEF FileInv, OriginalRetained, WholeFiles, Held, Backups
  <1> QED
    BY <1>3, <1>4, <1>5 DEF FileInv

LEMMA RecordKeeps ==
    ASSUME FileInv, mode' = mode, Record
    PROVE  FileInv'
  <1>1. /\ h.pc = "record" /\ row' = h.out /\ h' = Idle
        /\ UNCHANGED <<dest, temp, baks, litter, owned, edits, faults>>
    BY DEF Record, disk, user
  <1>2. /\ Len(baks) \in Nat /\ DOMAIN baks = 1..Len(baks)
        /\ h \in HandlerType(Len(baks)) /\ h.out \in RowType(Len(baks))
        /\ h.out.backup \in 0..Len(baks)
    BY TypeFacts DEF FileInv, HandlerType, RowType
  <1>3. /\ h.out.backup # 0 => h.out.state = "COMPLETED" /\ baks[h.out.backup] \in File
    BY <1>1 DEF FileInv, Attempt
  <1>4. RecordedBackupExists'
    BY <1>1, <1>2, <1>3 DEF RecordedBackupExists
  <1>5. temp' \in File \cup {Absent} /\ litter' \subseteq File /\ faults' \in 0..MaxFaults
    BY <1>1 DEF FileInv, FileTypeOK
  <1> QED
    BY <1>1, <1>2, <1>3, <1>4, <1>5, BackToIdle

LEMMA CrashKeeps ==
    ASSUME FileInv, mode' = mode, Crash
    PROVE  FileInv'
  <1>1. /\ h.pc # "idle" /\ Fault /\ h' = Idle /\ temp' = Absent
        /\ row' = IF row.state = "RUNNING" THEN [row EXCEPT !.state = "INTERRUPTED"] ELSE row
        /\ litter' = IF temp = Absent THEN litter ELSE litter \cup {temp}
        /\ UNCHANGED <<dest, baks, owned, edits>>
    BY DEF Crash, user
  <1>2. row \in RowType(Len(baks)) /\ row.backup = 0
    BY <1>1, TypeFacts DEF FileInv, Attempt, Done
  <1>3. row' \in RowType(Len(baks)) /\ row'.backup = 0
    BY <1>1, <1>2 DEF RowType
  <1>4. temp' \in File \cup {Absent} /\ litter' \subseteq File /\ faults' \in 0..MaxFaults
    BY <1>1, FaultFacts DEF FileInv, FileTypeOK
  <1>5. RecordedBackupExists'
    BY <1>3 DEF RecordedBackupExists
  <1> QED
    BY <1>1, <1>3, <1>4, <1>5, BackToIdle

(* A step of the user changes the destination only; what it must keep.     *)
LEMMA UserStep ==
    ASSUME FileInv, mode' = mode, UNCHANGED <<temp, baks, litter, row, h, faults>>,
           dest' \in File \cup {Absent, Other}, dest' \in File => Whole(dest'),
           owned' \subseteq Original \cup Edits, owned' \cap Original \subseteq owned,
           edits' \in 0..MaxEdits, OriginalRetained'
    PROVE  FileInv'
  <1>1. /\ row \in RowType(Len(baks)) /\ h \in HandlerType(Len(baks))
        /\ temp \in File \cup {Absent} /\ litter \subseteq File /\ faults \in 0..MaxFaults
        /\ baks \in Seq(File \cup {Absent})
    BY TypeFacts DEF FileInv, FileTypeOK
  <1>2. FileTypeOK'
    BY <1>1, MakeType DEF FileInv
  <1>3. Attempt' /\ RecordedBackupExists'
    BY DEF FileInv, Attempt, RecordedBackupExists
  <1>4. Contents'
    BY DEF FileInv, Contents, Held, Backups
  <1>5. WholeFiles'
    BY WholeFacts, MakeWhole DEF FileInv
  <1> QED
    BY <1>2, <1>3, <1>4, <1>5 DEF FileInv

LEMMA UserKeeps ==
    ASSUME FileInv, mode' = mode, User
    PROVE  FileInv'
  <1>1. /\ dest \in File \cup {Absent, Other} /\ owned \subseteq Original \cup Edits
        /\ edits \in 0..MaxEdits
    BY DEF FileInv, FileTypeOK
  <1>2. edits < MaxEdits => edits + 1 \in 0..MaxEdits
    BY <1>1, FileAssumption
  <1>3. ASSUME NEW e \in Edits, Edit(e) PROVE FileInv'
    <2>1. /\ dest # Other /\ dest' = (IF dest = Absent THEN {} ELSE dest) \cup {e}
          /\ owned' = owned \cup {e} /\ edits' \in 0..MaxEdits
          /\ UNCHANGED <<temp, baks, litter, row, h, faults>>
      BY <1>2, <1>3 DEF Edit
    <2>2. dest' \in File /\ Whole(dest')
      BY <1>1, <2>1, FileFacts, WholeFacts DEF FileInv, File, Whole
    <2>3. owned' \subseteq Original \cup Edits /\ owned' \cap Original \subseteq owned
      BY <1>1, <2>1, FileFacts
    <2>4. OriginalRetained'
      <3>1. Backups' = Backups
        BY <2>1 DEF Backups
      <3>2. dest \in File => dest \subseteq dest'
        BY <2>1, FileFacts
      <3>3. ASSUME NEW f \in {dest} \cup Backups, f \in File,
                   NEW x \in owned' \cap f \cap Original
            PROVE  x \in Held({dest'} \cup Backups')
        BY <2>2, <3>1, <3>2, <3>3, HeldMember
      <3> QED
        BY <2>3, <3>3, MakeRetained DEF FileInv
    <2> QED
      BY <2>1, <2>2, <2>3, <2>4, UserStep
  <1>4. CASE Remove
    <2>1. /\ dest' = Absent /\ owned' = (IF dest = Other THEN owned ELSE owned \ dest)
          /\ edits' \in 0..MaxEdits /\ UNCHANGED <<temp, baks, litter, row, h, faults>>
      BY <1>2, <1>4 DEF Remove
    <2>2. /\ dest' \in {Absent} /\ dest' \notin File /\ owned' \subseteq owned
      BY <2>1, FileFacts
    <2>3. OriginalRetained'
      <3>1. Backups' = Backups
        BY <2>1 DEF Backups
      <3>2. dest \in File => owned' \cap dest = {}
        BY <2>1, FileFacts
      <3>3. ASSUME NEW f \in {dest} \cup Backups, f \in File,
                   NEW x \in owned' \cap f \cap Original
            PROVE  x \in Held({dest'} \cup Backups')
        BY <3>1, <3>2, <3>3, HeldMember
      <3> QED
        BY <2>2, <3>3, MakeRetained DEF FileInv
    <2> QED
      BY <1>1, <2>1, <2>2, <2>3, UserStep
  <1>5. CASE MakeOther
    <2>1. /\ dest = Absent /\ dest' = Other /\ owned' = owned
          /\ edits' \in 0..MaxEdits /\ UNCHANGED <<temp, baks, litter, row, h, faults>>
      BY <1>2, <1>5 DEF MakeOther
    <2>2. OriginalRetained'
      <3>1. Backups' = Backups /\ dest \notin File
        BY <2>1, FileFacts DEF Backups
      <3>2. ASSUME NEW f \in {dest} \cup Backups, f \in File,
                   NEW x \in owned' \cap f \cap Original
            PROVE  x \in Held({dest'} \cup Backups')
        BY <3>1, <3>2, HeldMember
      <3> QED
        BY <2>1, <3>2, MakeRetained DEF FileInv
    <2> QED
      BY <1>1, <2>1, <2>2, FileFacts, UserStep
  <1> QED
    BY <1>3, <1>4, <1>5 DEF User

-----------------------------------------------------------------------------
(* The invariant holds.                                                    *)

LEMMA FileInitInv == Init => FileInv
  <1> SUFFICES ASSUME Init PROVE FileInv
    OBVIOUS
  <1>1. /\ mode \in Modes /\ dest \in {Absent, Original} /\ temp = Absent /\ baks = <<>>
        /\ litter = {} /\ row = NoRow /\ h = Idle /\ faults = 0 /\ edits = 0
        /\ owned = IF dest = Absent THEN {} ELSE dest
    BY DEF Init
  <1>2. Len(baks) = 0 /\ DOMAIN baks = {} /\ baks \in Seq(File \cup {Absent})
    BY <1>1
  <1>3. /\ h \in HandlerType(0) /\ h.pc = "idle" /\ Whole(h.read)
        /\ row \in RowType(0) /\ row.state = "PENDING" /\ row.backup = 0
    BY <1>1, IdleFacts
  <1>4. FileTypeOK
    <2>1. faults \in 0..MaxFaults /\ edits \in 0..MaxEdits
      BY <1>1, FileAssumption
    <2>2. row \in Row /\ h \in [pc : Labels, read : File \cup {Absent}, base : 0..Len(baks), out : Row]
      BY <1>2, <1>3 DEF Row, RowType, HandlerType
    <2>3. /\ dest \in File \cup {Absent, Other} /\ temp \in File \cup {Absent}
          /\ owned \subseteq Original \cup Edits /\ litter \subseteq File
      BY <1>1, FileFacts
    <2> QED
      BY <1>1, <1>2, <2>1, <2>2, <2>3 DEF FileTypeOK
  <1>5. Attempt /\ Contents /\ RecordedBackupExists
    BY <1>3 DEF Attempt, Contents, RecordedBackupExists, Replacing
  <1>6. Backups = {} /\ owned \cap Original \subseteq Held({dest}) /\ "half" \notin Held({dest})
    BY <1>1, <1>2, FileFacts, HeldMember DEF Backups, Whole
  <1>7. OriginalRetained /\ WholeFiles
    <2>1. {dest} \cup Backups = {dest}
      BY <1>6
    <2> QED
      BY <1>6, <2>1 DEF OriginalRetained, WholeFiles
  <1> QED
    BY <1>4, <1>5, <1>7 DEF FileInv

LEMMA FileStepInv == FileInv /\ [Next]_vars => FileInv'
  <1> SUFFICES ASSUME FileInv, [Next]_vars PROVE FileInv'
    OBVIOUS
  <1>1. CASE Program /\ mode' = mode
    BY <1>1, ProbeKeeps, MarkRunningKeeps, InspectKeeps, EarlyFailuresKeep,
       CreateTempFileKeeps, StreamKeeps, DropsKeep, ChooseKeeps, PublishKeeps, ReplaceKeeps,
       ReplaceFailsKeeps, ApplyAttributesKeeps, AttributesFailKeeps, RollbackKeeps,
       RollbackFailsKeeps, RecordKeeps DEF Program
  <1>2. CASE (Crash \/ User) /\ mode' = mode
    BY <1>2, CrashKeeps, UserKeeps
  <1>3. CASE UNCHANGED vars
    BY <1>3 DEF vars, FileInv, FileTypeOK, Attempt, Contents, OriginalRetained, WholeFiles,
                RecordedBackupExists, Held, Backups, Row
  <1> QED
    BY <1>1, <1>2, <1>3 DEF Next

LEMMA FileInvHolds == Spec => []FileInv
  BY FileInitInv, FileStepInv, PTL DEF Spec

(* Through failed calls, rollbacks, crashes and edits, what the            *)
(* destination held before the restore stays on disk, in place or as a     *)
(* backup, unless the user removes it (atomic_replace and its rollback).   *)
THEOREM OriginalIsNeverLost == Spec => []OriginalRetained
  <1>1. FileInv => OriginalRetained
    BY DEF FileInv
  <1> QED
    BY <1>1, FileInvHolds, PTL

(* A reader of the destination or of a backup never meets a partly         *)
(* streamed artifact: only temporary siblings are written to.              *)
THEOREM FilesAreAlwaysWhole == Spec => []WholeFiles
  <1>1. FileInv => WholeFiles
    BY DEF FileInv
  <1> QED
    BY <1>1, FileInvHolds, PTL

(* Only Record writes COMPLETED, and what it writes was settled before.    *)
LEMMA RecordsItsBackup == FileInv /\ [Next]_vars => CompletionRecordsBackup
  <1> SUFFICES ASSUME FileInv, [Next]_vars, row' # row, row'.state = "COMPLETED"
               PROVE  row'.backup = (IF Len(baks) > h.base THEN Len(baks) ELSE 0)
    BY DEF CompletionRecordsBackup
  <1>1. Record
    <2>1. CASE UNCHANGED vars
      BY <2>1 DEF vars
    <2>2. CASE MarkRunning
      BY <2>2 DEF MarkRunning
    <2>3. CASE Crash
      <3>1. row \in RowType(Len(baks)) /\ row' = [row EXCEPT !.state = "INTERRUPTED"]
        BY <2>3, TypeFacts DEF Crash, FileInv
      <3> QED
        BY <3>1 DEF RowType
    <2>4. CASE User
      BY <2>4 DEF User, Edit, Remove, MakeOther
    <2>5. CASE Program /\ ~MarkRunning /\ ~Record
      BY <2>5 DEF Program, Probe, Inspect, MergeConflict, ArtifactFails, PathFails,
                  CreateTempFile, Stream, StreamFails, Choose, Publish, PublishFails, Replace,
                  ReplaceFails, ApplyAttributes, AttributesFail, Rollback, RollbackFails,
                  DropRolledBack
    <2> QED
      BY <2>1, <2>2, <2>3, <2>4, <2>5 DEF Next
  <1> QED
    BY <1>1 DEF Record, FileInv, Attempt

(* The row of a completed replacement names the backup that its own        *)
(* attempt made, and no later rollback consumes it.                        *)
THEOREM CompletionNamesItsBackup ==
    Spec => []RecordedBackupExists /\ [][CompletionRecordsBackup]_vars
  <1>1. FileInv => RecordedBackupExists
    BY DEF FileInv
  <1> QED
    BY <1>1, FileInvHolds, RecordsItsBackup, PTL DEF Spec

-----------------------------------------------------------------------------
(* The same of the handlers together.                                      *)

LEMMA WritePartInv == MCSpec => [](part = "write" => FileInv)
  <1>1. MCInit => (part = "write" => FileInv)
    BY FileInitInv DEF MCInit
  <1>2. (part = "write" => FileInv) /\ [MCNext]_mcVars => (part = "write" => FileInv)'
    <2> SUFFICES ASSUME part = "write" => FileInv, [MCNext]_mcVars, part' = "write"
                 PROVE  FileInv'
      OBVIOUS
    <2>1. part = "write" /\ [Next]_vars
      BY DEF MCNext, WriteStep, SubsystemStep, EnvironmentStep, McpStep,
             StagingStep, InstallStep, BrowserStep, mcVars, vars
    <2> QED
      BY <2>1, FileStepInv
  <1> QED
    BY <1>1, <1>2, PTL DEF MCSpec

(* Every operation that writes a file, in every mode, keeps the user's     *)
(* original, publishes whole files only, and records the backup it made.   *)
THEOREM HandlersKeepFiles == MCSpec => FilesAreKept
  <1>1. (part = "write" => FileInv) =>
          (part = "write" => FileTypeOK /\ OriginalRetained /\ WholeFiles /\ RecordedBackupExists)
    BY DEF FileInv
  <1>2. (part = "write" => FileInv) /\ [MCNext]_mcVars
          => [part = "write" => CompletionRecordsBackup]_mcVars
    <2> SUFFICES ASSUME part = "write" => FileInv, [MCNext]_mcVars, part = "write"
                 PROVE  CompletionRecordsBackup
      OBVIOUS
    <2>1. [Next]_vars
      BY DEF MCNext, WriteStep, SubsystemStep, EnvironmentStep, McpStep,
             StagingStep, InstallStep, BrowserStep, mcVars, vars
    <2> QED
      BY <2>1, RecordsItsBackup
  <1> QED
    BY <1>1, <1>2, WritePartInv, PTL DEF MCSpec, FilesAreKept
-----------------------------------------------------------------------------
(* Items of a browser's profile.                                           *)

(* A lock tells of a running browser, and whatever reaches the lock or was *)
(* written is portable and of an allowed kind.                             *)
ProfileInv ==
    /\ running \in BOOLEAN /\ lock \in BOOLEAN /\ written \in BOOLEAN
    /\ running => lock
    /\ /\ Browser!IsProfile(op)
       /\ pc \in {"lock", "write"} \/ written \/ outcome \in {"completed", "skipped"}
       => Browser!Portable(op) /\ Browser!Allowed(op)

LEMMA ProfileInitInv == Browser!BpInit => ProfileInv
  BY DEF Browser!BpInit, ProfileInv

LEMMA ProfileStepInv == ProfileInv /\ Browser!BpNext => ProfileInv'
  <1> SUFFICES ASSUME ProfileInv, Browser!BpNext
               PROVE  ProfileInv'
    OBVIOUS
  <1>1. PICK fits \in BOOLEAN :
          fits = (Browser!IsProfile(op) => Browser!Portable(op) /\ Browser!Allowed(op))
    OBVIOUS
  <1>2. op' = op
    BY DEF Browser!BpNext, Browser!IsSatisfied, Browser!Execute, Browser!ProfileLock,
           Browser!Write, Browser!StartBrowser, Browser!StopBrowser, Browser!Acknowledge
  <1>3. fits = (Browser!IsProfile(op) => Browser!Portable(op) /\ Browser!Allowed(op))'
    BY <1>1, <1>2 DEF Browser!IsProfile, Browser!Portable, Browser!Allowed
  <1> DEFINE Exposed == pc \in {"lock", "write"} \/ written \/ outcome \in {"completed", "skipped"}
             Flags == running \in BOOLEAN /\ lock \in BOOLEAN /\ written \in BOOLEAN
                        /\ (running => lock)
  <1>4. Flags /\ (Exposed => fits)
    BY <1>1 DEF ProfileInv
  <1>5. Flags' /\ (Exposed' => fits)
    <2>1. CASE Browser!IsSatisfied
      BY <2>1, <1>4 DEF Browser!IsSatisfied, Browser!Ends
    <2>2. CASE Browser!Execute
      BY <2>2, <1>1, <1>4 DEF Browser!Execute, Browser!Ends
    <2>3. CASE Browser!ProfileLock
      BY <2>3, <1>4 DEF Browser!ProfileLock, Browser!Ends
    <2>4. CASE Browser!Write
      BY <2>4, <1>4 DEF Browser!Write, Browser!Ends
    <2>5. CASE Browser!StartBrowser
      BY <2>5, <1>4 DEF Browser!StartBrowser
    <2>6. CASE Browser!StopBrowser
      BY <2>6, <1>4 DEF Browser!StopBrowser
    <2>7. CASE Browser!Acknowledge
      BY <2>7, <1>4 DEF Browser!Acknowledge
    <2> QED
      BY <2>1, <2>2, <2>3, <2>4, <2>5, <2>6, <2>7 DEF Browser!BpNext
  <1> QED
    BY <1>3, <1>5 DEF ProfileInv

LEMMA ProtectedItems == ProfileInv => Browser!ProtectedIsUntouched
  BY DEF ProfileInv, Browser!ProtectedIsUntouched, Browser!IsProfile, Browser!Portable,
         Browser!Allowed

LEMMA QuietBeginnings == ProfileInv /\ Browser!BpNext => Browser!WritesBeginQuiet
  BY DEF ProfileInv, Browser!WritesBeginQuiet, Browser!BpNext, Browser!IsSatisfied,
         Browser!Execute, Browser!ProfileLock, Browser!Write, Browser!StartBrowser,
         Browser!StopBrowser, Browser!Acknowledge, Browser!Ends

(* Of a browser's profile only portable items are ever written, and every  *)
(* such write begins after a moment at which the browser was closed,       *)
(* whatever operations there are and however often the browser starts.     *)
THEOREM ProfilesAreAlwaysSafe == MCSpec => ProfilesAreSafe
  <1>1. MCInit => (part = "browser" => ProfileInv)
    BY ProfileInitInv DEF MCInit
  <1>2. ASSUME [MCNext]_mcVars, part = "browser" \/ part' = "browser"
        PROVE  part = "browser" /\ part' = "browser" /\ (Browser!BpNext \/ UNCHANGED Browser!bpVars)
    BY <1>2 DEF MCNext, WriteStep, SubsystemStep, EnvironmentStep, McpStep,
                StagingStep, InstallStep, BrowserStep, mcVars, Browser!bpVars
  <1>3. ProfileInv /\ UNCHANGED Browser!bpVars => ProfileInv' /\ Browser!WritesBeginQuiet
    BY DEF ProfileInv, Browser!bpVars, Browser!WritesBeginQuiet, Browser!IsProfile,
           Browser!Portable, Browser!Allowed
  <1>4. (part = "browser" => ProfileInv) /\ [MCNext]_mcVars => (part = "browser" => ProfileInv)'
    BY <1>2, <1>3, ProfileStepInv
  <1>5. (part = "browser" => ProfileInv) /\ (part = "browser" => ProfileInv)' /\ [MCNext]_mcVars
          => [part = "browser" => Browser!ProtectedIsUntouched' /\ Browser!WritesBeginQuiet]_mcVars
    <2> SUFFICES ASSUME part = "browser" => ProfileInv, (part = "browser" => ProfileInv)',
                        [MCNext]_mcVars, part = "browser"
                 PROVE  Browser!ProtectedIsUntouched' /\ Browser!WritesBeginQuiet
      OBVIOUS
    <2>1. (ProfileInv => Browser!ProtectedIsUntouched)'
      BY ProtectedItems, PTL
    <2> QED
      BY <2>1, <1>2, <1>3, QuietBeginnings
  <1> QED
    BY <1>1, <1>4, <1>5, PTL DEF MCSpec, ProfilesAreSafe

-----------------------------------------------------------------------------
(* Images, volumes and distributions.                                      *)

(* The stages of an attempt belong to the kinds; what the scan took for    *)
(* the distribution had its version; a volume that is verified was         *)
(* extracted to its end, unless it was removed since, and one of somebody  *)
(* else came after the look.                                               *)
Stages ==
    /\ pc # "idle" => outcome = "none"
    /\ pc \notin {"idle", "scanned"} => Sub!ValidSpec(op)
    /\ op.kind = "wsl" /\ facts.present => facts.distro = op.version
    /\ pc \in {"load", "inspect"} => op.kind = "image"
    /\ pc \in {"info", "helper", "look", "create", "extract", "verify"} => op.kind = "volume"
    /\ pc \in {"status", "import", "list"} => op.kind = "wsl"

VolumeStages ==
    /\ pc = "verify" => machine.volume \in {"whole", "mixed"} \/ removed
    /\ op.kind = "volume" /\ pc \in {"stage", "create", "extract"} /\ machine.volume = "foreign"
          => late

SubsystemInv == Sub!SubTypeOK /\ Stages /\ VolumeStages

LEMMA SubsystemInitInv == Sub!SubInit => SubsystemInv
  <1> SUFFICES ASSUME Sub!SubInit
               PROVE  SubsystemInv
    OBVIOUS
  <1>1. machine \in Sub!Machines
    BY DEF Sub!SubInit, Sub!Machines, Sub!Images, Sub!NoImage
  <1>2. facts \in Sub!Facts
    BY DEF Sub!SubInit, Sub!Facts
  <1>3. 0 \in 0..MaxAttempts /\ 0 \in 0..MaxOwner
    BY SubsystemAssumption DEF Sub!SubAssumption
  <1> QED
    BY <1>1, <1>2, <1>3
    DEF Sub!SubInit, SubsystemInv, Sub!SubTypeOK, Stages, VolumeStages, Sub!PCs, Sub!Outcomes

(* An answer ends the attempt and leaves the machine alone.                *)
LEMMA AnswerKeeps ==
    ASSUME SubsystemInv, NEW r \in Sub!Outcomes, Sub!Answer(r)
    PROVE  SubsystemInv'
  BY DEF SubsystemInv, Sub!Answer, Sub!End, Sub!Quiet, Sub!SubTypeOK, Stages, VolumeStages, Sub!PCs,
         Sub!ValidSpec

LEMMA Results ==
    /\ "none" \in Sub!Outcomes /\ "completed" \in Sub!Outcomes /\ "skipped" \in Sub!Outcomes
    /\ "waiting" \in Sub!Outcomes /\ "cancelled" \in Sub!Outcomes /\ "failed" \in Sub!Outcomes
    /\ "killed" \in Sub!Outcomes
  BY DEF Sub!Outcomes

(* A question asked of Docker or WSL, answered well, leads to a stage of   *)
(* the same kind.                                                          *)
LEMMA GoToKeeps ==
    ASSUME SubsystemInv, pc # "idle", NEW next \in Sub!PCs, Sub!GoTo(next),
           next \in {"load", "inspect"} => op.kind = "image",
           next \in {"info", "helper", "look", "create"} => op.kind = "volume",
           next \in {"status", "import", "list"} => op.kind = "wsl",
           next \notin {"extract", "verify"}, pc # "scanned" \/ Sub!ValidSpec(op),
           next \in {"stage", "create"} /\ op.kind = "volume" => pc = "stage"
    PROVE  SubsystemInv'
  BY DEF SubsystemInv, Sub!GoTo, Sub!Quiet, Sub!SubTypeOK, Stages, VolumeStages, Sub!ValidSpec

LEMMA BeginKeeps ==
    ASSUME SubsystemInv, Sub!Begin
    PROVE  SubsystemInv'
  <1>1. Sub!Contains(op, machine) \in BOOLEAN
    BY DEF Sub!Contains
  <1>2. machine.ready \in BOOLEAN /\ machine.distro \in {0, 1, 2}
    BY DEF SubsystemInv, Sub!SubTypeOK, Sub!Machines
  <1>3. facts' \in Sub!Facts
    BY <1>1, <1>2 DEF Sub!Begin, Sub!Facts
  <1>4. facts'.present = Sub!Contains(op, machine) /\ facts'.distro = machine.distro
    BY DEF Sub!Begin
  <1>5. op.kind = "wsl" /\ facts'.present => facts'.distro = op.version
    BY <1>4 DEF Sub!Contains
  <1>6. attempts' \in 0..MaxAttempts
    BY SubsystemAssumption DEF SubsystemInv, Sub!SubTypeOK, Sub!Begin, Sub!SubAssumption
  <1>7. /\ UNCHANGED <<op, machine, acts, lost>> /\ cancel' \in BOOLEAN /\ late' \in BOOLEAN
        /\ removed' \in BOOLEAN /\ pc' = "scanned" /\ outcome' = "none"
    BY DEF Sub!Begin
  <1> QED
    BY <1>3, <1>5, <1>6, <1>7, Results
    DEF SubsystemInv, Sub!SubTypeOK, Stages, VolumeStages, Sub!PCs

LEMMA SatisfiedKeeps ==
    ASSUME SubsystemInv, Sub!Satisfied
    PROVE  SubsystemInv'
  BY Results, AnswerKeeps, GoToKeeps DEF Sub!Satisfied, Sub!PCs

LEMMA StartsKeep ==
    ASSUME SubsystemInv, Sub!StartImage \/ Sub!StartVolume \/ Sub!StartWsl
    PROVE  SubsystemInv'
  <1>1. CASE Sub!StartImage
    BY <1>1, Results, AnswerKeeps, GoToKeeps DEF Sub!StartImage, Sub!PCs
  <1>2. CASE Sub!StartVolume
    BY <1>2, Results, AnswerKeeps, GoToKeeps DEF Sub!StartVolume, Sub!PCs
  <1>3. CASE Sub!StartWsl
    BY <1>3, Results, AnswerKeeps, GoToKeeps DEF Sub!StartWsl, Sub!PCs
  <1> QED
    BY <1>1, <1>2, <1>3

LEMMA QuestionsKeep ==
    ASSUME SubsystemInv, Sub!Status \/ Sub!Info \/ Sub!FindHelper
    PROVE  SubsystemInv'
  <1>1. CASE Sub!Status
    BY <1>1, Results, AnswerKeeps, GoToKeeps DEF Sub!Status, Sub!Asks, Sub!PCs, SubsystemInv, Stages
  <1>2. CASE Sub!Info
    BY <1>2, Results, AnswerKeeps, GoToKeeps DEF Sub!Info, Sub!Asks, Sub!PCs, SubsystemInv, Stages
  <1>3. CASE Sub!FindHelper
    BY <1>3, Results, AnswerKeeps, GoToKeeps DEF Sub!FindHelper, Sub!Asks, Sub!PCs, SubsystemInv, Stages
  <1> QED
    BY <1>1, <1>2, <1>3

LEMMA LookKeeps ==
    ASSUME SubsystemInv, Sub!LookForVolume
    PROVE  SubsystemInv'
  <1>1. CASE \E r \in Sub!Outcomes : Sub!Answer(r)
    BY <1>1, AnswerKeeps
  <1>2. CASE /\ machine.volume = "none" \/ ~machine.ready
             /\ pc = "look" /\ pc' = "stage" /\ late' = (late \/ ~machine.ready)
             /\ UNCHANGED <<op, machine, facts, outcome, cancel, attempts, acts, removed, lost>>
    <2>1. late' \in BOOLEAN /\ (machine'.volume = "foreign" => late')
      BY <1>2
    <2> QED
      BY <1>2, <2>1 DEF SubsystemInv, Sub!SubTypeOK, Stages, VolumeStages, Sub!PCs, Sub!ValidSpec
  <1> QED
    BY <1>1, <1>2, Results DEF Sub!LookForVolume

LEMMA StageKeeps ==
    ASSUME SubsystemInv, Sub!Stage
    PROVE  SubsystemInv'
  <1>1. CASE \E r \in Sub!Outcomes : Sub!Answer(r)
    BY <1>1, AnswerKeeps
  <1>2. CASE Sub!GoTo(CASE op.kind = "image" -> "load" [] op.kind = "volume" -> "create"
                        [] op.kind = "wsl" -> "import")
    <2>1. op.kind \in {"image", "volume", "wsl"}
      BY SubsystemAssumption DEF SubsystemInv, Sub!SubTypeOK, Sub!SubAssumption, Sub!Shapes
    <2>2. PICK next : next = CASE op.kind = "image" -> "load" [] op.kind = "volume" -> "create"
                               [] op.kind = "wsl" -> "import"
      OBVIOUS
    <2>3. /\ next \in {"load", "create", "import"}
          /\ next = "load" => op.kind = "image"
          /\ next = "create" => op.kind = "volume"
          /\ next = "import" => op.kind = "wsl"
      BY <2>1, <2>2
    <2>4. Sub!GoTo(next) /\ pc = "stage"
      BY <1>2, <2>2 DEF Sub!Stage
    <2> QED
      BY <2>3, <2>4, GoToKeeps DEF Sub!PCs
  <1> QED
    BY <1>1, <1>2, Results DEF Sub!Stage

LEMMA SubsystemTypes ==
    ASSUME SubsystemInv
    PROVE  /\ machine \in Sub!Machines /\ machine.tag \in Sub!Images \cup {Sub!NoImage}
           /\ machine.volume \in {"none", "empty", "partial", "whole", "foreign", "mixed"}
           /\ pc \notin {"idle", "scanned"} /\ op.kind = "wsl" => op.version \in {0, 1, 2}
           /\ Archive \in Sub!Images
  <1>1. op.version \in Nat
    BY SubsystemAssumption DEF SubsystemInv, Sub!SubTypeOK, Sub!SubAssumption, Sub!Shapes
  <1>2. pc \notin {"idle", "scanned"} /\ op.kind = "wsl" => op.version \in {0, 1, 2}
    BY <1>1 DEF SubsystemInv, Stages, Sub!ValidSpec
  <1> QED
    BY <1>2, SubsystemAssumption DEF SubsystemInv, Sub!SubTypeOK, Sub!Machines, Sub!SubAssumption

(* What the commands and the owner do to the machine.                      *)
LEMMA MachineFacts ==
    ASSUME SubsystemInv
    PROVE  /\ \A v \in {"none", "empty", "partial", "whole", "foreign", "mixed"} :
                [machine EXCEPT !.volume = v] \in Sub!Machines /\ [machine EXCEPT !.volume = v].volume = v
           /\ \A i \in Sub!Images, t \in Sub!Images \cup {Sub!NoImage} :
                LET w == [machine EXCEPT !.images = @ \cup {i}, !.tag = t]
                IN  w \in Sub!Machines /\ w.volume = machine.volume
           /\ \A d \in BOOLEAN, v \in {0, 1, 2} :
                LET w == [machine EXCEPT !.dir = d, !.distro = v]
                IN  w \in Sub!Machines /\ w.volume = machine.volume
           /\ LET w == [machine EXCEPT !.dir = TRUE] IN  w \in Sub!Machines /\ w.volume = machine.volume
           /\ LET w == [machine EXCEPT !.ready = ~@] IN  w \in Sub!Machines /\ w.volume = machine.volume
           /\ \A h0 \in {"none", "pinned", "nameless"} :
                LET w == [machine EXCEPT !.helper = h0]
                IN  w \in Sub!Machines /\ w.volume = machine.volume
  BY SubsystemTypes DEF Sub!Machines

(* An attempt that ends, whatever it leaves behind.                        *)
LEMMA EndKeeps ==
    ASSUME SubsystemInv, machine' \in Sub!Machines, NEW r \in Sub!Outcomes, Sub!End(r),
           UNCHANGED <<op, facts, cancel, attempts, acts, late, removed>>, lost' \in BOOLEAN
    PROVE  SubsystemInv'
  BY DEF SubsystemInv, Sub!End, Sub!SubTypeOK, Stages, VolumeStages, Sub!PCs, Sub!ValidSpec

(* A command that ended well.                                              *)
LEMMA NextStageKeeps ==
    ASSUME SubsystemInv, pc # "idle", machine' \in Sub!Machines,
           UNCHANGED <<op, facts, outcome, cancel, attempts, acts, late, removed>>, lost' \in BOOLEAN,
           \/ pc = "load" /\ pc' = "inspect"
           \/ pc = "import" /\ pc' = "list"
           \/ /\ pc = "create" /\ pc' = "extract"
              /\ machine'.volume = "foreign" => machine.volume = "foreign"
           \/ pc = "extract" /\ pc' = "verify" /\ machine'.volume \in {"whole", "mixed"}
    PROVE  SubsystemInv'
  BY DEF SubsystemInv, Sub!SubTypeOK, Stages, VolumeStages, Sub!PCs, Sub!ValidSpec

LEMMA LoadKeeps ==
    ASSUME SubsystemInv, Sub!Load
    PROVE  SubsystemInv'
  <1>1. PICK w : w = [machine EXCEPT !.images = @ \cup {Archive},
                                     !.tag = IF op.tagged THEN Archive ELSE @]
    OBVIOUS
  <1>2. w \in Sub!Machines /\ machine \in Sub!Machines
    <2>1. PICK t : t = IF op.tagged THEN Archive ELSE machine.tag
      OBVIOUS
    <2>2. t \in Sub!Images \cup {Sub!NoImage}
      BY <2>1, SubsystemTypes
    <2>3. w = [machine EXCEPT !.images = @ \cup {Archive}, !.tag = t]
      BY <1>1, <2>1
    <2> QED
      BY <2>2, <2>3, SubsystemTypes, MachineFacts
  <1>3. Sub!Changes("load", w, {}, "inspect") /\ Sub!Quiet
    BY <1>1 DEF Sub!Load
  <1>4. lost' \in BOOLEAN
    BY <1>3 DEF SubsystemInv, Sub!SubTypeOK, Sub!Quiet
  <1> QED
    BY <1>2, <1>3, <1>4, EndKeeps, NextStageKeeps, Results DEF Sub!Changes, Sub!Quiet

LEMMA CreateKeeps ==
    ASSUME SubsystemInv, Sub!CreateVolume
    PROVE  SubsystemInv'
  <1>1. PICK v : v = IF machine.volume = "none" THEN "empty" ELSE machine.volume
    OBVIOUS
  <1>2. PICK w : w = [machine EXCEPT !.volume = v]
    OBVIOUS
  <1>3. w \in Sub!Machines /\ machine \in Sub!Machines /\ w.volume = v
    BY <1>1, <1>2, SubsystemTypes, MachineFacts
  <1>4. Sub!Changes("create", w, {}, "extract") /\ Sub!Quiet
    BY <1>1, <1>2 DEF Sub!CreateVolume
  <1>5. lost' \in BOOLEAN
    BY <1>4 DEF SubsystemInv, Sub!SubTypeOK, Sub!Quiet
  <1> QED
    BY <1>1, <1>3, <1>4, <1>5, EndKeeps, NextStageKeeps, Results DEF Sub!Changes, Sub!Quiet

LEMMA ExtractKeeps ==
    ASSUME SubsystemInv, Sub!Extract
    PROVE  SubsystemInv'
  <1>1. PICK v, u : /\ v = Sub!Extracted(machine.volume)
                    /\ u = IF machine.volume \in {"foreign", "mixed"} THEN "mixed" ELSE "partial"
    OBVIOUS
  <1>2. PICK w, x : w = [machine EXCEPT !.volume = v] /\ x = [machine EXCEPT !.volume = u]
    OBVIOUS
  <1>3. /\ w \in Sub!Machines /\ machine \in Sub!Machines /\ w.volume \in {"whole", "mixed"}
        /\ x \in Sub!Machines
    BY <1>1, <1>2, SubsystemTypes, MachineFacts DEF Sub!Extracted
  <1>4. Sub!Changes("extract", w, {x}, "verify")
    BY <1>1, <1>2 DEF Sub!Extract
  <1>5. UNCHANGED <<op, facts, cancel, attempts, acts, late, removed>> /\ lost' \in BOOLEAN
    BY DEF SubsystemInv, Sub!SubTypeOK, Sub!Extract
  <1> QED
    BY <1>3, <1>4, <1>5, EndKeeps, NextStageKeeps, Results DEF Sub!Changes

LEMMA ImportKeeps ==
    ASSUME SubsystemInv, Sub!Import
    PROVE  SubsystemInv'
  <1>1. pc = "import" /\ op.kind = "wsl"
    BY DEF SubsystemInv, Stages, Sub!Import, Sub!Changes
  <1>2. PICK w, x : w = [machine EXCEPT !.distro = op.version, !.dir = TRUE] /\ x = [machine EXCEPT !.dir = TRUE]
    OBVIOUS
  <1>3. w \in Sub!Machines /\ machine \in Sub!Machines /\ x \in Sub!Machines
    BY <1>1, <1>2, SubsystemTypes DEF Sub!Machines
  <1>4. Sub!Quiet /\ lost' \in BOOLEAN
    BY DEF SubsystemInv, Sub!SubTypeOK, Sub!Import, Sub!Quiet
  <1>5. CASE Sub!Changes("import", w, {x}, "list")
    BY <1>3, <1>4, <1>5, EndKeeps, NextStageKeeps, Results DEF Sub!Changes, Sub!Quiet
  <1>6. CASE machine' = machine /\ \E r \in Sub!Outcomes : Sub!End(r)
    BY <1>3, <1>4, <1>6, EndKeeps DEF Sub!Quiet
  <1> QED
    BY <1>2, <1>5, <1>6, Results DEF Sub!Import

LEMMA VerificationsKeep ==
    ASSUME SubsystemInv, Sub!InspectImage \/ Sub!VerifyVolume \/ Sub!ListDistributions
    PROVE  SubsystemInv'
  <1>1. \E r \in Sub!Outcomes : Sub!Answer(r)
    BY Results DEF Sub!InspectImage, Sub!VerifyVolume, Sub!ListDistributions
  <1> QED
    BY <1>1, AnswerKeeps

LEMMA CancelKeeps ==
    ASSUME SubsystemInv, Sub!Cancel
    PROVE  SubsystemInv'
  BY DEF SubsystemInv, Sub!Cancel, Sub!SubTypeOK, Stages, VolumeStages, Sub!ValidSpec

LEMMA SubCrashKeeps ==
    ASSUME SubsystemInv, Sub!Crash
    PROVE  SubsystemInv'
  <1>1. machine' \in Sub!Machines
    <2>1. PICK t : t = IF op.tagged THEN Archive ELSE machine.tag
      OBVIOUS
    <2>2. t \in Sub!Images \cup {Sub!NoImage}
      BY <2>1, SubsystemTypes
    <2>3. \/ machine' = machine
          \/ \E v \in {"empty", "partial", "whole"} : machine' = [machine EXCEPT !.volume = v]
          \/ machine' = [machine EXCEPT !.dir = TRUE]
          \/ pc = "import" /\ machine' = [machine EXCEPT !.dir = TRUE, !.distro = op.version]
          \/ machine' = [machine EXCEPT !.images = @ \cup {Archive}, !.tag = t]
      BY <2>1 DEF Sub!Crash
    <2>4. pc = "import" => op.version \in {0, 1, 2}
      BY SubsystemTypes DEF SubsystemInv, Stages
    <2>5. PICK v : v = op.version
      OBVIOUS
    <2>6. ASSUME pc = "import" PROVE [machine EXCEPT !.dir = TRUE, !.distro = op.version] \in Sub!Machines
      BY <2>4, <2>5, <2>6, MachineFacts
    <2>7. [machine EXCEPT !.images = @ \cup {Archive}, !.tag = t] \in Sub!Machines
      BY <2>2, SubsystemTypes, MachineFacts
    <2>8. \A v0 \in {"empty", "partial", "whole"} : [machine EXCEPT !.volume = v0] \in Sub!Machines
      BY MachineFacts
    <2>9. [machine EXCEPT !.dir = TRUE] \in Sub!Machines
      BY MachineFacts
    <2> QED
      BY <2>3, <2>6, <2>7, <2>8, <2>9, SubsystemTypes
  <1> QED
    BY <1>1, EndKeeps, Results DEF Sub!Crash, SubsystemInv, Sub!SubTypeOK

LEMMA OwnerKeeps ==
    ASSUME SubsystemInv, NEW act \in Owner, Sub!OwnerActs(act)
    PROVE  SubsystemInv'
  <1>1. acts' \in 0..MaxOwner
    BY SubsystemAssumption DEF SubsystemInv, Sub!SubTypeOK, Sub!OwnerActs, Sub!SubAssumption
  <1>2. /\ UNCHANGED <<op, facts, pc, outcome, cancel, attempts, lost>> /\ late' \in BOOLEAN
        /\ removed' \in BOOLEAN /\ (late => late') /\ (removed => removed')
    BY DEF SubsystemInv, Sub!SubTypeOK, Sub!OwnerActs
  <1>3. CASE /\ machine.volume = "none" /\ machine' = [machine EXCEPT !.volume = "foreign"]
             /\ act = "create"
    <2>1. machine' \in Sub!Machines /\ machine'.volume = "foreign"
      BY <1>3, SubsystemTypes, MachineFacts
    <2>2. pc \in {"stage", "create", "extract"} => late'
      BY <1>3 DEF Sub!OwnerActs
    <2>3. pc = "verify" => removed'
      BY <1>2, <1>3 DEF SubsystemInv, VolumeStages
    <2> QED
      BY <1>1, <1>2, <1>3, <2>1, <2>2, <2>3
      DEF SubsystemInv, Sub!SubTypeOK, Stages, VolumeStages, Sub!ValidSpec
  <1>4. CASE act = "remove" /\ machine' = [machine EXCEPT !.volume = "none"]
    <2>1. machine' \in Sub!Machines /\ machine'.volume = "none"
      BY <1>4, SubsystemTypes, MachineFacts
    <2>2. pc = "verify" => removed'
      BY <1>4 DEF Sub!OwnerActs
    <2> QED
      BY <1>1, <1>2, <2>1, <2>2
      DEF SubsystemInv, Sub!SubTypeOK, Stages, VolumeStages, Sub!ValidSpec
  <1>5. CASE machine' \in Sub!Machines /\ machine'.volume = machine.volume
    BY <1>1, <1>2, <1>5 DEF SubsystemInv, Sub!SubTypeOK, Stages, VolumeStages, Sub!ValidSpec
  <1>6. \/ act = "create" /\ machine.volume = "none" /\ machine' = [machine EXCEPT !.volume = "foreign"]
        \/ act = "remove" /\ machine' = [machine EXCEPT !.volume = "none"]
        \/ machine' = [machine EXCEPT !.dir = FALSE, !.distro = 0]
        \/ machine' = [machine EXCEPT !.ready = ~@]
        \/ \E h0 \in {"none", "pinned", "nameless"} : machine' = [machine EXCEPT !.helper = h0]
        \/ machine' = [machine EXCEPT !.tag = "i2", !.images = @ \cup {"i2"}]
    BY DEF Sub!OwnerActs
  <1>7. ASSUME machine' = [machine EXCEPT !.tag = "i2", !.images = @ \cup {"i2"}]
        PROVE  machine' \in Sub!Machines /\ machine'.volume = machine.volume
    BY <1>7, SubsystemTypes DEF Sub!Machines, Sub!Images
  <1>8. ASSUME machine' = [machine EXCEPT !.dir = FALSE, !.distro = 0]
        PROVE  machine' \in Sub!Machines /\ machine'.volume = machine.volume
    BY <1>8, MachineFacts
  <1> QED
    BY <1>3, <1>4, <1>5, <1>6, <1>7, <1>8, MachineFacts, ZenonT(40)

LEMMA SubsystemStepInv == SubsystemInv /\ Sub!SubNext => SubsystemInv'
  BY BeginKeeps, SatisfiedKeeps, StartsKeep, QuestionsKeep, LookKeeps, StageKeeps, LoadKeeps, CreateKeeps,
     ExtractKeeps, ImportKeeps, VerificationsKeep, CancelKeeps, SubCrashKeeps, OwnerKeeps
  DEF Sub!SubNext

(* What a finishing attempt says of its kind.                              *)
LEMMA SubsystemResults ==
    ASSUME SubsystemInv, Sub!SubNext
    PROVE  /\ Sub!CompletedIsWhole /\ Sub!CompletedIsIdentical
           /\ Sub!DistributionIsRight /\ Sub!ForeignIsKept
  <1>1. ASSUME outcome' = "completed", outcome # "completed"
        PROVE  \/ pc = "inspect" /\ Sub!ImageVerified(op, machine)
               \/ pc = "verify"
               \/ pc = "list" /\ machine.distro = op.version
    <2>1. ~Sub!Begin /\ ~Sub!Crash /\ ~Sub!Cancel /\ ~\E act \in Owner : Sub!OwnerActs(act)
      BY <1>1 DEF Sub!Begin, Sub!End, Sub!Crash, Sub!Cancel, Sub!OwnerActs
    <2>2. /\ ~Sub!Satisfied /\ ~Sub!StartImage /\ ~Sub!StartVolume /\ ~Sub!StartWsl
          /\ ~Sub!Stage /\ ~Sub!LookForVolume
      BY <1>1 DEF Sub!Satisfied, Sub!StartImage, Sub!StartVolume, Sub!StartWsl, Sub!Stage, Sub!LookForVolume,
                  Sub!Answer, Sub!GoTo, Sub!End
    <2>3. ~Sub!Status /\ ~Sub!Info /\ ~Sub!FindHelper
      BY <1>1 DEF Sub!Status, Sub!Info, Sub!FindHelper, Sub!Asks, Sub!Answer, Sub!GoTo, Sub!End
    <2>4. ~Sub!Load /\ ~Sub!CreateVolume /\ ~Sub!Extract /\ ~Sub!Import
      BY <1>1 DEF Sub!Load, Sub!CreateVolume, Sub!Extract, Sub!Import, Sub!Changes, Sub!End
    <2> QED
      BY <1>1, <2>1, <2>2, <2>3, <2>4
      DEF Sub!SubNext, Sub!InspectImage, Sub!VerifyVolume, Sub!ListDistributions, Sub!Answer, Sub!End
  <1>2. ASSUME pc # pc', outcome' \in {"completed", "skipped"}
        PROVE  outcome \notin {"completed", "skipped"}
    <2>1. pc # "idle" \/ Sub!Begin
      BY <1>2 DEF Sub!SubNext, Sub!Satisfied, Sub!StartImage, Sub!StartVolume, Sub!StartWsl, Sub!Stage,
                  Sub!LookForVolume, Sub!Status, Sub!Info, Sub!FindHelper, Sub!Asks, Sub!Load,
                  Sub!CreateVolume, Sub!Extract, Sub!Import, Sub!Changes, Sub!InspectImage,
                  Sub!VerifyVolume, Sub!ListDistributions, Sub!Cancel, Sub!Crash, Sub!OwnerActs
    <2> QED
      BY <2>1 DEF SubsystemInv, Stages, Sub!Begin
  <1>3. Sub!CompletedIsWhole
    BY <1>1, <1>2 DEF Sub!CompletedIsWhole, Sub!Finishes, SubsystemInv, Stages, VolumeStages
  <1>4. Sub!CompletedIsIdentical
    BY <1>1, <1>2 DEF Sub!CompletedIsIdentical, Sub!Finishes, SubsystemInv, Stages, Sub!ImageVerified
  <1>5. ASSUME outcome' = "skipped", outcome # "skipped", op.kind = "wsl"
        PROVE  facts.distro = op.version
    <2>1. ~Sub!Begin /\ ~Sub!Crash /\ ~Sub!Cancel /\ ~\E act \in Owner : Sub!OwnerActs(act)
      BY <1>5 DEF Sub!Begin, Sub!End, Sub!Crash, Sub!Cancel, Sub!OwnerActs
    <2>2. ~Sub!StartImage /\ ~Sub!StartVolume /\ ~Sub!StartWsl /\ ~Sub!Stage /\ ~Sub!LookForVolume
      BY <1>5 DEF Sub!StartImage, Sub!StartVolume, Sub!StartWsl, Sub!Stage, Sub!LookForVolume,
                  Sub!Answer, Sub!GoTo, Sub!End
    <2>3. ~Sub!Status /\ ~Sub!Info /\ ~Sub!FindHelper
      BY <1>5 DEF Sub!Status, Sub!Info, Sub!FindHelper, Sub!Asks, Sub!Answer, Sub!GoTo, Sub!End
    <2>4. ~Sub!Load /\ ~Sub!CreateVolume /\ ~Sub!Extract /\ ~Sub!Import
      BY <1>5 DEF Sub!Load, Sub!CreateVolume, Sub!Extract, Sub!Import, Sub!Changes, Sub!End
    <2>5. ~Sub!InspectImage /\ ~Sub!VerifyVolume /\ ~Sub!ListDistributions
      BY <1>5 DEF Sub!InspectImage, Sub!VerifyVolume, Sub!ListDistributions, Sub!Answer, Sub!End
    <2>6. Sub!Satisfied
      BY <2>1, <2>2, <2>3, <2>4, <2>5 DEF Sub!SubNext
    <2>7. facts.present
      BY <1>5, <2>6 DEF Sub!Satisfied, Sub!Answer, Sub!GoTo, Sub!End
    <2> QED
      BY <1>5, <2>7 DEF SubsystemInv, Stages
  <1>6. Sub!DistributionIsRight
    BY <1>1, <1>2, <1>5 DEF Sub!DistributionIsRight, Sub!Finishes, SubsystemInv, Stages
  <1>7. Sub!ForeignIsKept
    <2> SUFFICES ASSUME ~lost, lost'
                 PROVE  late
      BY DEF Sub!ForeignIsKept
    <2>1. Sub!Extract
      BY DEF Sub!SubNext, Sub!Begin, Sub!Satisfied, Sub!StartImage, Sub!StartVolume, Sub!StartWsl, Sub!Stage,
             Sub!LookForVolume, Sub!Status, Sub!Info, Sub!FindHelper, Sub!Asks, Sub!Load,
             Sub!CreateVolume, Sub!Import, Sub!InspectImage, Sub!Answer, Sub!GoTo, Sub!Quiet,
             Sub!VerifyVolume, Sub!ListDistributions, Sub!Cancel, Sub!Crash, Sub!OwnerActs
    <2> QED
      BY <2>1 DEF Sub!Extract, Sub!Changes, SubsystemInv, Stages, VolumeStages
  <1> QED
    BY <1>3, <1>4, <1>6, <1>7

(* Over any attempts and any acts of the owner at any moment, a volume, an *)
(* image or a distribution is called restored only when it is (a volume:   *)
(* unless the owner removed it once it was filled), and data is extracted  *)
(* over a volume of the owner only when the attempt could not see it.      *)
THEOREM SubsystemsAreAlwaysRestored == MCSpec => SubsystemsAreRestored
  <1> DEFINE Good == /\ Sub!CompletedIsWhole /\ Sub!CompletedIsIdentical
                     /\ Sub!DistributionIsRight /\ Sub!ForeignIsKept
  <1>1. MCInit => (part = "subsystem" => SubsystemInv)
    BY SubsystemInitInv DEF MCInit
  <1>2. ASSUME [MCNext]_mcVars, part = "subsystem" \/ part' = "subsystem"
        PROVE  part = "subsystem" /\ (Sub!SubNext \/ UNCHANGED Sub!subVars)
    BY <1>2 DEF MCNext, WriteStep, SubsystemStep, EnvironmentStep, McpStep,
                StagingStep, InstallStep, BrowserStep, mcVars, Sub!subVars
  <1>3. SubsystemInv /\ UNCHANGED Sub!subVars => SubsystemInv'
    BY DEF SubsystemInv, Sub!SubTypeOK, Stages, VolumeStages, Sub!ValidSpec, Sub!subVars
  <1>4. UNCHANGED Sub!subVars => Good
    BY DEF Sub!CompletedIsWhole, Sub!CompletedIsIdentical, Sub!DistributionIsRight,
           Sub!ForeignIsKept, Sub!Finishes, Sub!subVars
  <1>5. (part = "subsystem" => SubsystemInv) /\ [MCNext]_mcVars => (part = "subsystem" => SubsystemInv)'
    BY <1>2, <1>3, SubsystemStepInv
  <1>6. (part = "subsystem" => SubsystemInv) /\ [MCNext]_mcVars => [part = "subsystem" => Good]_mcVars
    BY <1>2, <1>4, SubsystemResults
  <1> QED
    BY <1>1, <1>5, <1>6, PTL DEF MCSpec, SubsystemsAreRestored

-----------------------------------------------------------------------------
(* Registrations of MCP servers.                                           *)

(* A document with known containers and no value that may not be written.  *)
Clean(body) == DOMAIN body \subseteq Mcp!Containers /\ Mcp!SafeBody(body)

RegistrationInv ==
    /\ server \in Servers /\ Clean(doc.body) /\ Clean(read.body)
    /\ pc = "commit" => ~Mcp!Blocking(server) /\ server.source \in Mcp!Containers

LEMMA EmptyDomain == DOMAIN <<>> = {}
  OBVIOUS

(* A document in which an entry was laid over that of a server: all else   *)
(* is as it was.                                                           *)
Laid(new, body, c, n, entry) ==
    /\ DOMAIN new = DOMAIN body \cup {c}
    /\ \A d \in DOMAIN body : d # c => new[d] = body[d]
    /\ c \in DOMAIN body => DOMAIN body[c] \subseteq DOMAIN new[c]
    /\ n \in DOMAIN new[c]
    /\ \A m \in DOMAIN new[c] :
          m # n => c \in DOMAIN body /\ m \in DOMAIN body[c] /\ new[c][m] = body[c][m]
    /\ c \in DOMAIN body /\ n \in DOMAIN body[c] => DOMAIN body[c][n] \subseteq DOMAIN new[c][n]
    /\ \A f \in DOMAIN entry : f \in DOMAIN new[c][n] /\ new[c][n][f] = entry[f]
    /\ \A f \in DOMAIN new[c][n] :
          f \notin DOMAIN entry =>
             /\ c \in DOMAIN body /\ n \in DOMAIN body[c] /\ f \in DOMAIN body[c][n]
             /\ new[c][n][f] = body[c][n][f]

LEMMA LayFacts ==
    ASSUME NEW body, NEW c, NEW n, NEW entry
    PROVE  Laid(Mcp!Lay(body, c, n, entry), body, c, n, entry)
  <1>1. PICK new, held, old, both, servers :
          /\ new = Mcp!Lay(body, c, n, entry) /\ held = Mcp!In(body, c) /\ old = Mcp!Entry(held, n)
          /\ both = Mcp!Overlay(entry, old) /\ servers = Mcp!Put(held, n, both)
    OBVIOUS
  <1>2. DOMAIN new = DOMAIN body \cup {c} /\ new[c] = servers
          /\ \A d \in DOMAIN body : d # c => new[d] = body[d]
    BY <1>1 DEF Mcp!Lay, Mcp!Put
  <1>3. /\ DOMAIN servers = DOMAIN held \cup {n} /\ servers[n] = both
        /\ \A m \in DOMAIN held : m # n => servers[m] = held[m]
    BY <1>1 DEF Mcp!Put
  <1>4. /\ DOMAIN both = DOMAIN entry \cup DOMAIN old
        /\ \A f \in DOMAIN entry : both[f] = entry[f]
        /\ \A f \in DOMAIN old : f \notin DOMAIN entry => both[f] = old[f]
    BY <1>1 DEF Mcp!Overlay
  <1>5. (c \in DOMAIN body => held = body[c]) /\ (c \notin DOMAIN body => DOMAIN held = {})
    BY <1>1, EmptyDomain DEF Mcp!In
  <1>6. (n \in DOMAIN held => old = held[n]) /\ (n \notin DOMAIN held => DOMAIN old = {})
    BY <1>1, EmptyDomain DEF Mcp!Entry
  <1>7. Laid(new, body, c, n, entry)
    BY <1>2, <1>3, <1>4, <1>5, <1>6 DEF Laid
  <1> QED
    BY <1>1, <1>7

(* The document stays clean when the entry is.                             *)
LEMMA LayIsClean ==
    ASSUME NEW body, Clean(body), NEW c \in Mcp!Containers, NEW n, NEW entry,
           Mcp!SafeFields(entry)
    PROVE  Clean(Mcp!Lay(body, c, n, entry))
  <1>1. PICK new : new = Mcp!Lay(body, c, n, entry)
    OBVIOUS
  <1>2. Laid(new, body, c, n, entry)
    BY <1>1, LayFacts
  <1>3. DOMAIN new \subseteq Mcp!Containers
    BY <1>2 DEF Clean, Laid
  <1>4. ASSUME NEW d \in DOMAIN new, NEW m \in DOMAIN new[d], NEW f \in DOMAIN new[d][m]
        PROVE  new[d][m][f] \notin Mcp!Unsafe(f)
    <2>1. CASE d # c
      BY <2>1, <1>2 DEF Clean, Mcp!SafeBody, Mcp!SafeFields, Laid
    <2>2. CASE d = c /\ m # n
      BY <2>2, <1>2 DEF Clean, Mcp!SafeBody, Mcp!SafeFields, Laid
    <2>3. CASE d = c /\ m = n /\ f \in DOMAIN entry
      BY <2>3, <1>2 DEF Mcp!SafeFields, Laid
    <2>4. CASE d = c /\ m = n /\ f \notin DOMAIN entry
      BY <2>4, <1>2 DEF Clean, Mcp!SafeBody, Mcp!SafeFields, Laid
    <2> QED
      BY <2>1, <2>2, <2>3, <2>4
  <1> QED
    BY <1>1, <1>3, <1>4 DEF Clean, Mcp!SafeBody, Mcp!SafeFields

(* The entry that is written has safe values only.                         *)
LEMMA SafeEntryIsSafe ==
    ASSUME NEW s, ~Mcp!Blocking(s)
    PROVE  Mcp!SafeFields(Mcp!SafeEntry(s))
  <1> SUFFICES ASSUME NEW f \in DOMAIN Mcp!SafeEntry(s)
               PROVE  Mcp!SafeEntry(s)[f] \notin Mcp!Unsafe(f)
    BY DEF Mcp!SafeFields
  <1> QED
    BY DEF Mcp!SafeEntry, Mcp!SafeValue, Mcp!Blocking, Mcp!PlaceBlocks, Mcp!Unsafe

(* choose_container finds the first known container, if there is one.      *)
LEMMA FirstContainer ==
    ASSUME NEW body, NEW s, \E i \in DOMAIN Order : Order[i] \in DOMAIN body
    PROVE  Mcp!Container(body, s) \in DOMAIN body
  <1> DEFINE T == {i \in DOMAIN Order : Order[i] \in DOMAIN body}
             Less == OpToRel(<, Nat)
  <1>1. DOMAIN Order \subseteq Nat
    BY ServerAssumption DEF Mcp!McpAssumption
  <1>2. PICK i \in T : \A j \in T : ~(<<j, i>> \in Less)
    BY <1>1, NatLessThanWellFounded, WFMin, Zenon
  <1>3. \A j \in T : ~(j < i)
    BY <1>1, <1>2 DEF OpToRel
  <1>4. \A j \in 1..(i-1) : j \in DOMAIN Order
    BY ServerAssumption DEF Mcp!McpAssumption
  <1>5. i \in DOMAIN Order /\ Order[i] \in DOMAIN body /\ \A j \in 1..(i-1) : Order[j] \notin DOMAIN body
    BY <1>1, <1>3, <1>4
  <1> QED
    BY <1>5 DEF Mcp!Container

LEMMA RegistrationInitInv == Mcp!McpInit => RegistrationInv
  <1> SUFFICES ASSUME Mcp!McpInit
               PROVE  RegistrationInv
    OBVIOUS
  <1>1. PICK d : d = doc
    OBVIOUS
  <1>3. Clean(d.body)
    BY <1>1, ServerAssumption DEF Mcp!McpInit, Mcp!McpAssumption, Clean
  <1>4. Clean(Mcp!NoFile.body)
    BY EmptyDomain DEF Clean, Mcp!SafeBody, Mcp!NoFile
  <1> QED
    BY <1>1, <1>3, <1>4 DEF Mcp!McpInit, RegistrationInv

(* What a commit writes.                                                   *)
LEMMA CommitFacts ==
    ASSUME RegistrationInv, Mcp!Commit, doc' # doc \/ outcome' # "failed"
    PROVE  /\ pc = "commit" /\ server \in Servers
           /\ doc'.body = Mcp!Lay(read.body, Mcp!Container(read.body, server), server.name,
                                  Mcp!SafeEntry(server))
  BY DEF Mcp!Commit, Mcp!Written, Mcp!File, Mcp!MergeServer, Mcp!NoFile, Mcp!Ends, RegistrationInv

LEMMA ContainerIsKnown ==
    ASSUME RegistrationInv, pc = "commit"
    PROVE  Mcp!Container(read.body, server) \in Mcp!Containers
  <1>1. PICK body, s : body = read.body /\ s = server
    OBVIOUS
  <1>2. CASE \E i \in DOMAIN Order : Order[i] \in DOMAIN body
    BY <1>1, <1>2, FirstContainer DEF RegistrationInv, Clean
  <1>3. CASE ~\E i \in DOMAIN Order : Order[i] \in DOMAIN body
    BY <1>1, <1>3 DEF RegistrationInv, Mcp!Container
  <1> QED
    BY <1>2, <1>3

LEMMA CommitKeeps ==
    ASSUME RegistrationInv, Mcp!Commit
    PROVE  RegistrationInv'
  <1>1. Clean(doc.body)'
    <2>1. CASE doc' = doc
      BY <2>1 DEF RegistrationInv, Clean
    <2>2. CASE doc' # doc
      <3>1. PICK body, c, n, entry, new :
              /\ body = read.body /\ c = Mcp!Container(read.body, server)
              /\ n = server.name /\ entry = Mcp!SafeEntry(server) /\ new = doc'.body
        OBVIOUS
      <3>2. Clean(body) /\ c \in Mcp!Containers /\ new = Mcp!Lay(body, c, n, entry)
        BY <2>2, <3>1, CommitFacts, ContainerIsKnown DEF RegistrationInv
      <3>3. PICK s : s = server
        OBVIOUS
      <3>4. ~Mcp!Blocking(s)
        BY <3>3, <2>2, CommitFacts DEF RegistrationInv
      <3>5. Mcp!SafeFields(entry)
        BY <3>1, <3>3, <3>4, SafeEntryIsSafe
      <3>6. Clean(new)
        BY <3>2, <3>5, LayIsClean
      <3> QED
        BY <3>1, <3>6
    <2> QED
      BY <2>1, <2>2
  <1>2. UNCHANGED <<server, read>> /\ pc' = "idle"
    BY DEF Mcp!Commit, Mcp!Ends
  <1> QED
    BY <1>1, <1>2 DEF RegistrationInv, Clean

LEMMA HarnessKeeps ==
    ASSUME RegistrationInv, NEW e \in HarnessEdits, Mcp!HarnessWrites(e)
    PROVE  RegistrationInv'
  <1>1. e.container \in Mcp!Containers /\ Mcp!SafeFields(e.entry)
    BY ServerAssumption DEF Mcp!McpAssumption
  <1>2. PICK body, new : body = doc.body /\ new = doc'.body
    OBVIOUS
  <1>3. Clean(body) /\ new = Mcp!Lay(body, e.container, e.name, e.entry)
    BY <1>2 DEF RegistrationInv, Mcp!HarnessWrites, Mcp!File
  <1>4. Clean(new)
    BY <1>1, <1>3, LayIsClean
  <1>5. Clean(doc.body)'
    BY <1>2, <1>4
  <1>6. UNCHANGED <<server, read, pc>>
    BY DEF Mcp!HarnessWrites
  <1> QED
    BY <1>5, <1>6 DEF RegistrationInv, Clean, Mcp!Blocking

LEMMA ExecuteKeeps ==
    ASSUME RegistrationInv, Mcp!Execute
    PROVE  RegistrationInv'
  <1>1. UNCHANGED <<server, doc>> /\ (read' = read \/ read' = doc)
    BY DEF Mcp!Execute
  <1>2. pc' = "commit" => ~Mcp!Blocking(server) /\ server.source \notin {"none", "invalid"}
    BY DEF Mcp!Execute, Mcp!Ends, Mcp!SourceIsValid
  <1>3. server.source \in Mcp!Containers \cup {"none", "invalid"}
    BY ServerAssumption DEF Mcp!McpAssumption, RegistrationInv
  <1> QED
    BY <1>1, <1>2, <1>3 DEF RegistrationInv, Clean, Mcp!Blocking

LEMMA RegistrationStepInv == RegistrationInv /\ Mcp!McpNext => RegistrationInv'
  <1> SUFFICES ASSUME RegistrationInv, Mcp!McpNext
               PROVE  RegistrationInv'
    OBVIOUS
  <1>1. CASE Mcp!IsSatisfied \/ Mcp!Crash \/ Mcp!Acknowledge
    <2>1. UNCHANGED <<server, doc, read>> /\ pc' # "commit"
      BY <1>1 DEF Mcp!IsSatisfied, Mcp!Crash, Mcp!Acknowledge, Mcp!Ends
    <2> QED
      BY <2>1 DEF RegistrationInv, Clean
  <1> QED
    BY <1>1, ExecuteKeeps, CommitKeeps, HarnessKeeps DEF Mcp!McpNext

LEMMA DocumentsStayClean == RegistrationInv => Mcp!NoSecretWritten
  BY DEF RegistrationInv, Clean, Mcp!NoSecretWritten

(* What a registration keeps, and where it goes.                           *)
LEMMA CommitsMerge ==
    ASSUME RegistrationInv, Mcp!McpNext
    PROVE  Mcp!UnknownIsKept /\ Mcp!OneContainer
  <1> SUFFICES ASSUME Mcp!Commits
               PROVE  Mcp!UnknownIsKept /\ Mcp!OneContainer
    BY DEF Mcp!UnknownIsKept, Mcp!OneContainer
  <1>1. Mcp!Commit /\ outcome' # "failed"
    BY DEF Mcp!Commits, Mcp!McpNext, Mcp!IsSatisfied, Mcp!Execute, Mcp!Crash, Mcp!Acknowledge,
           Mcp!HarnessWrites, Mcp!Ends
  <1>2. PICK body, c, s, new :
          /\ body = read.body /\ c = Mcp!Container(read.body, server) /\ s = server
          /\ new = doc'.body
    OBVIOUS
  <1>3. new = Mcp!Lay(body, c, s.name, Mcp!SafeEntry(s)) /\ Clean(body)
    BY <1>1, <1>2, CommitFacts DEF RegistrationInv
  <1>4. PICK n, entry : n = s.name /\ entry = Mcp!SafeEntry(s)
    OBVIOUS
  <1>5. Laid(new, body, c, n, entry)
    BY <1>3, <1>4, LayFacts
  <1>6. ASSUME NEW d \in DOMAIN body, NEW m \in DOMAIN body[d], NEW f \in DOMAIN body[d][m]
        PROVE  /\ d \in DOMAIN new /\ m \in DOMAIN new[d] /\ f \in DOMAIN new[d][m]
               /\ m # n \/ f \notin DOMAIN entry => new[d][m][f] = body[d][m][f]
    <2>1. CASE d # c
      BY <2>1, <1>5 DEF Laid
    <2>2. CASE d = c /\ m # n
      BY <2>2, <1>5 DEF Laid
    <2>3. CASE d = c /\ m = n
      BY <2>3, <1>5 DEF Laid
    <2> QED
      BY <2>1, <2>2, <2>3
  <1>7. ASSUME NEW d \in DOMAIN body, NEW m \in DOMAIN body[d]
        PROVE  d \in DOMAIN new /\ m \in DOMAIN new[d]
    BY <1>5 DEF Laid
  <1>8. \A d \in DOMAIN body : d \in DOMAIN new
    BY <1>5 DEF Laid
  <1>9. Mcp!UnknownIsKept
    BY <1>2, <1>4, <1>6, <1>7, <1>8 DEF Mcp!UnknownIsKept
  <1>10. ASSUME DOMAIN body # {}
         PROVE  DOMAIN new = DOMAIN body
    <2>1. \E i \in DOMAIN Order : Order[i] \in DOMAIN body
      BY <1>10, <1>3 DEF Clean, Mcp!Containers
    <2>2. Mcp!Container(body, s) \in DOMAIN body
      BY <2>1, FirstContainer
    <2> QED
      BY <2>2, <1>2, <1>5 DEF Laid
  <1>11. Mcp!OneContainer
    BY <1>2, <1>10 DEF Mcp!OneContainer
  <1> QED
    BY <1>9, <1>11

(* Registering a server, by whatever attempts and whatever the harness     *)
(* writes meanwhile, writes no secret, no value that was not read and, but *)
(* for the working directory or address, none that looks like a secret,    *)
(* keeps what the document had, and adds no second container.              *)
THEOREM RegistrationIsAlwaysSafe == MCSpec => RegistrationIsSafe
  <1> DEFINE Good == Mcp!UnknownIsKept /\ Mcp!OneContainer
  <1>1. MCInit => (part = "mcp" => RegistrationInv)
    BY RegistrationInitInv DEF MCInit
  <1>2. ASSUME [MCNext]_mcVars, part = "mcp" \/ part' = "mcp"
        PROVE  part = "mcp" /\ part' = "mcp" /\ (Mcp!McpNext \/ UNCHANGED Mcp!mcpVars)
    BY <1>2 DEF MCNext, WriteStep, SubsystemStep, EnvironmentStep, McpStep,
                StagingStep, InstallStep, BrowserStep, mcVars, Mcp!mcpVars
  <1>3. RegistrationInv /\ UNCHANGED Mcp!mcpVars => RegistrationInv' /\ Good
    BY DEF RegistrationInv, Clean, Mcp!mcpVars, Mcp!Blocking, Mcp!UnknownIsKept, Mcp!OneContainer,
           Mcp!Commits
  <1>4. (part = "mcp" => RegistrationInv) /\ [MCNext]_mcVars => (part = "mcp" => RegistrationInv)'
    BY <1>2, <1>3, RegistrationStepInv
  <1>5. (part = "mcp" => RegistrationInv) /\ (part = "mcp" => RegistrationInv)' /\ [MCNext]_mcVars
          => [part = "mcp" => Mcp!NoSecretWritten' /\ Mcp!UnknownIsKept /\ Mcp!OneContainer]_mcVars
    <2> SUFFICES ASSUME part = "mcp" => RegistrationInv, (part = "mcp" => RegistrationInv)',
                        [MCNext]_mcVars, part = "mcp"
                 PROVE  Mcp!NoSecretWritten' /\ Good
      OBVIOUS
    <2>1. (RegistrationInv => Mcp!NoSecretWritten)'
      BY DocumentsStayClean, PTL
    <2> QED
      BY <2>1, <1>2, <1>3, CommitsMerge
  <1> QED
    BY <1>1, <1>4, <1>5, PTL DEF MCSpec, RegistrationIsSafe
-----------------------------------------------------------------------------
(* Functions that are defined position by position.                        *)

(* Induction in the form the provers can use: a set of numbers that is not *)
(* empty has a least member.                                               *)
LEMMA LeastMember ==
    ASSUME NEW T \in SUBSET Nat, T # {}
    PROVE  \E n \in T : \A m \in T : n <= m
  <1> DEFINE Less == OpToRel(<, Nat)
  <1>1. PICK n \in T : \A m \in T : ~(<<m, n>> \in Less)
    BY NatLessThanWellFounded, WFMin, Zenon
  <1>2. \A m \in T : ~(m < n)
    BY <1>1 DEF OpToRel
  <1> QED
    BY <1>2

(* A value for zero and a step for every position make a function.         *)
IsStepwise(f, m, z, step) == f[0] = z /\ \A n \in 1..m : f[n] = step[n][f[n - 1]]

LEMMA Stepwise ==
    ASSUME NEW L \in Nat, NEW Z, NEW z \in Z, NEW step \in [1..L -> [Z -> Z]]
    PROVE  \E f \in [0..L -> Z] : IsStepwise(f, L, z, step)
  <1> DEFINE Missing == {m \in 0..L : ~\E f \in [0..m -> Z] : IsStepwise(f, m, z, step)}
  <1>1. Missing = {}
    <2> SUFFICES ASSUME Missing # {} PROVE FALSE
      OBVIOUS
    <2>1. PICK m \in Missing : \A k \in Missing : m <= k
      <3>1. Missing \in SUBSET Nat
        OBVIOUS
      <3> HIDE DEF Missing
      <3> QED
        BY <3>1, LeastMember
    <2>2. m # 0
      <3>1. [n \in 0..0 |-> z] \in [0..0 -> Z] /\ IsStepwise([n \in 0..0 |-> z], 0, z, step)
        BY DEF IsStepwise
      <3> QED
        BY <3>1
    <2>3. m \in 0..L /\ m - 1 \in 0..L /\ m \in 1..L /\ m \in Int
      BY <2>2
    <2>4. m - 1 \notin Missing
      BY <2>1, <2>3
    <2>5. PICK g \in [0..(m - 1) -> Z] : IsStepwise(g, m - 1, z, step)
      BY <2>3, <2>4
    <2>6. PICK longer : longer = [n \in 0..m |-> IF n = m THEN step[m][g[m - 1]] ELSE g[n]]
      OBVIOUS
    <2>7. \A n \in 0..(m - 1) : g[n] \in Z
      BY <2>5
    <2>8. step[m][g[m - 1]] \in Z
      <3>1. m - 1 \in 0..(m - 1)
        BY <2>3
      <3>2. g[m - 1] \in Z /\ step[m] \in [Z -> Z]
        BY <2>3, <2>7, <3>1
      <3> QED
        BY <3>2
    <2>9. longer \in [0..m -> Z]
      <3>1. \A n \in 0..m : n # m => n \in 0..(m - 1)
        BY <2>3
      <3> QED
        BY <2>6, <2>7, <2>8, <3>1
    <2>10. longer[0] = z
      BY <2>2, <2>3, <2>5, <2>6 DEF IsStepwise
    <2>11. ASSUME NEW n \in 1..m PROVE longer[n] = step[n][longer[n - 1]]
      <3>1. n - 1 \in 0..m /\ n - 1 # m /\ n \in 0..m
        BY <2>3
      <3>2. longer[n - 1] = g[n - 1]
        BY <2>6, <3>1
      <3>3. CASE n = m
        BY <2>6, <3>1, <3>2, <3>3
      <3>4. CASE n # m
        <4>1. n \in 1..(m - 1)
          BY <2>3, <3>4
        <4>2. g[n] = step[n][g[n - 1]]
          BY <2>5, <4>1 DEF IsStepwise
        <4> QED
          BY <2>6, <3>1, <3>2, <3>4, <4>2
      <3> QED
        BY <3>3, <3>4
    <2>12. IsStepwise(longer, m, z, step)
      BY <2>10, <2>11 DEF IsStepwise
    <2> QED
      BY <2>9, <2>12
  <1>2. L \in 0..L /\ L \notin Missing
    BY <1>1
  <1> QED
    BY <1>2


-----------------------------------------------------------------------------
(* The environment handler.                                                *)

(* The list after one more entry, and what the list of the first n entries *)
(* is: the entries that are not empty, each key once, the keys in the      *)
(* order in which they first occur.                                        *)
Grown(v, x) == IF x = Env!Empty \/ Key[x] \in Env!Keys(v) THEN v ELSE Append(v, x)
KeptOK(v, all, n) ==
    /\ v \in Seq(DOMAIN Key)
    /\ \A j \in DOMAIN v : v[j] # Env!Empty /\ \E i \in 1..n : all[i] = v[j]
    /\ \A j, k \in DOMAIN v : Key[v[j]] = Key[v[k]] => j = k
    /\ \A i \in 1..n : all[i] # Env!Empty => \E j \in DOMAIN v : Key[v[j]] = Key[all[i]]
    /\ \A j, k \in DOMAIN v : j < k =>
          \A i \in 1..n : Key[all[i]] = Key[v[k]] => \E at \in 1..(i - 1) : Key[all[at]] = Key[v[j]]

LEMMA EntryKeys ==
    ASSUME NEW v \in Seq(DOMAIN Key)
    PROVE  /\ \A j \in DOMAIN v : v[j] \in DOMAIN Key /\ (v[j] # Env!Empty => Key[v[j]] \in Env!Keys(v))
           /\ \A k \in Env!Keys(v) : k # Env!Empty /\ \E j \in DOMAIN v : v[j] # Env!Empty /\ Key[v[j]] = k
  <1>1. \A e \in DOMAIN Key : Key[e] = Env!Empty <=> e = Env!Empty
    BY UserAssumption DEF Env!EnvironmentAssumption
  <1>2. \A j \in DOMAIN v : v[j] \in DOMAIN Key
    OBVIOUS
  <1> QED
    BY <1>1, <1>2 DEF Env!Keys

LEMMA AppendFacts ==
    ASSUME NEW S, NEW v \in Seq(S), NEW x \in S
    PROVE  /\ Append(v, x) \in Seq(S) /\ DOMAIN Append(v, x) = 1..(Len(v) + 1)
           /\ Append(v, x)[Len(v) + 1] = x /\ \A j \in 1..Len(v) : Append(v, x)[j] = v[j]
  OBVIOUS

LEMMA KeptAfter ==
    ASSUME NEW all \in Seq(DOMAIN Key), NEW n \in 1..Len(all), NEW v, KeptOK(v, all, n - 1)
    PROVE  KeptOK(Grown(v, all[n]), all, n)
  <1>1. PICK x, m, L : x = all[n] /\ m = n - 1 /\ L = Len(v)
    OBVIOUS
  <1>2. v \in Seq(DOMAIN Key) /\ x \in DOMAIN Key /\ L \in Nat /\ DOMAIN v = 1..L /\ m \in Nat /\ n = m + 1
    BY <1>1 DEF KeptOK
  <1>3. KeptOK(v, all, m)
    BY <1>1
  <1>4. \A i \in 1..n : i \in 1..m \/ i = n
    BY <1>2
  <1>5. (\A i \in 1..m : i \in 1..n /\ i \in 1..(n - 1)) /\ n \in 1..n
    BY <1>2
  (* An entry that has the key of a kept one changes nothing.              *)
  <1>6. CASE x = Env!Empty \/ Key[x] \in Env!Keys(v)
    <2>1. Grown(v, x) = v
      BY <1>6 DEF Grown
    <2>2. x # Env!Empty => \E j \in DOMAIN v : Key[v[j]] = Key[x]
      BY <1>2, <1>6, EntryKeys
    <2>3. \A j \in DOMAIN v : v[j] # Env!Empty /\ \E i \in 1..n : all[i] = v[j]
      BY <1>3, <1>5 DEF KeptOK
    <2>4. \A i \in 1..n : all[i] # Env!Empty => \E j \in DOMAIN v : Key[v[j]] = Key[all[i]]
      BY <1>1, <1>3, <1>4, <2>2 DEF KeptOK
    <2>5. ASSUME NEW j \in DOMAIN v, NEW k \in DOMAIN v, j < k, NEW i \in 1..n, Key[all[i]] = Key[v[k]]
          PROVE  \E at \in 1..(i - 1) : Key[all[at]] = Key[v[j]]
      <3>1. CASE i \in 1..m
        BY <1>3, <2>5, <3>1 DEF KeptOK
      <3>2. CASE i = n
        <4>1. PICK l \in 1..m : all[l] = v[k]
          BY <1>3 DEF KeptOK
        <4>2. PICK at \in 1..(l - 1) : Key[all[at]] = Key[v[j]]
          BY <1>3, <2>5, <4>1 DEF KeptOK
        <4>3. at \in 1..(i - 1)
          BY <1>2, <3>2, <4>1, <4>2
        <4> QED
          BY <4>2, <4>3
      <3> QED
        BY <1>4, <3>1, <3>2
    <2>6. \A j, k \in DOMAIN v : Key[v[j]] = Key[v[k]] => j = k
      BY <1>3 DEF KeptOK
    <2>7. KeptOK(v, all, n)
      BY <1>2, <2>3, <2>4, <2>5, <2>6 DEF KeptOK
    <2> QED
      BY <1>1, <2>1, <2>7
  (* A new key comes last.                                                 *)
  <1>7. CASE x # Env!Empty /\ Key[x] \notin Env!Keys(v)
    <2>1. PICK w : w = Append(v, x)
      OBVIOUS
    <2>2. Grown(v, x) = w
      BY <1>7, <2>1 DEF Grown
    <2>3. /\ w \in Seq(DOMAIN Key) /\ DOMAIN w = 1..(L + 1) /\ w[L + 1] = x
          /\ \A j \in 1..L : w[j] = v[j]
      <3>1. L = Len(v)
        BY <1>1
      <3> QED
        BY <1>2, <2>1, <3>1, AppendFacts
    <2>4. \A j \in DOMAIN w : j = L + 1 \/ j \in DOMAIN v
      BY <1>2, <2>3
    <2>5. \A j \in DOMAIN v : j \in DOMAIN w /\ w[j] = v[j] /\ Key[v[j]] # Key[x] /\ j < L + 1
      <3>1. ASSUME NEW j \in DOMAIN v PROVE Key[v[j]] # Key[x]
        BY <1>2, <1>3, <1>7, EntryKeys DEF KeptOK
      <3> QED
        BY <1>2, <2>3, <3>1
    <2>6. \A i \in 1..m : Key[all[i]] # Key[x]
      <3> SUFFICES ASSUME NEW i \in 1..m, Key[all[i]] = Key[x] PROVE FALSE
        OBVIOUS
      <3>1. all[i] \in DOMAIN Key
        BY <1>2, <1>5
      <3>2. all[i] # Env!Empty
        BY <1>2, <1>7, <3>1, UserAssumption DEF Env!EnvironmentAssumption
      <3>3. PICK j \in DOMAIN v : Key[v[j]] = Key[all[i]]
        BY <1>3, <3>2 DEF KeptOK
      <3> QED
        BY <2>5, <3>3
    <2>7. \A j \in DOMAIN w : w[j] # Env!Empty /\ \E i \in 1..n : all[i] = w[j]
      <3>1. ASSUME NEW j \in DOMAIN v PROVE w[j] # Env!Empty /\ \E i \in 1..n : all[i] = w[j]
        BY <1>3, <1>5, <2>5 DEF KeptOK
      <3>2. w[L + 1] # Env!Empty /\ all[n] = w[L + 1]
        BY <1>1, <1>7, <2>3
      <3> QED
        BY <1>5, <2>4, <3>1, <3>2
    <2>8. ASSUME NEW j \in DOMAIN w, NEW k \in DOMAIN w, Key[w[j]] = Key[w[k]] PROVE j = k
      <3>1. CASE j \in DOMAIN v /\ k \in DOMAIN v
        BY <1>3, <2>5, <2>8, <3>1 DEF KeptOK
      <3>2. CASE j = L + 1 \/ k = L + 1
        BY <2>3, <2>4, <2>5, <2>8, <3>2
      <3> QED
        BY <2>4, <3>1, <3>2
    <2>9. \A i \in 1..n : all[i] # Env!Empty => \E j \in DOMAIN w : Key[w[j]] = Key[all[i]]
      <3>1. ASSUME NEW i \in 1..m, all[i] # Env!Empty PROVE \E j \in DOMAIN w : Key[w[j]] = Key[all[i]]
        <4>1. PICK j \in DOMAIN v : Key[v[j]] = Key[all[i]]
          BY <1>3, <3>1 DEF KeptOK
        <4> QED
          BY <2>5, <4>1
      <3>2. w[L + 1] = all[n]
        BY <1>1, <2>3
      <3>3. L + 1 \in 1..(L + 1)
        BY <1>2
      <3>4. L + 1 \in DOMAIN w
        BY <2>3, <3>3
      <3> QED
        BY <1>4, <3>1, <3>2, <3>4
    <2>10. ASSUME NEW j \in DOMAIN w, NEW k \in DOMAIN w, j < k, NEW i \in 1..n, Key[all[i]] = Key[w[k]]
           PROVE  \E at \in 1..(i - 1) : Key[all[at]] = Key[w[j]]
      <3>1. j \in DOMAIN v
        BY <1>2, <2>3, <2>4, <2>10
      <3>2. CASE k \in DOMAIN v
        <4>1. i \in 1..m
          BY <1>1, <1>4, <2>5, <2>10, <3>2
        <4> QED
          BY <1>3, <2>5, <2>10, <3>1, <3>2, <4>1 DEF KeptOK
      <3>3. CASE k = L + 1
        <4>1. i = n
          BY <1>4, <2>3, <2>6, <2>10, <3>3
        <4>2. PICK at \in 1..m : all[at] = v[j]
          BY <1>3, <3>1 DEF KeptOK
        <4> QED
          BY <1>5, <2>5, <3>1, <4>1, <4>2
      <3> QED
        BY <2>4, <3>2, <3>3
    <2>11. KeptOK(w, all, n)
      BY <2>3, <2>7, <2>8, <2>9, <2>10 DEF KeptOK
    <2> QED
      BY <1>1, <2>2, <2>11
  <1> QED
    BY <1>6, <1>7

(* Unique is computed entry by entry.                                      *)
KeptIs(f, all) ==
    f = [n \in 0..Len(all) |->
            IF n = 0 THEN <<>>
            ELSE IF all[n] = Env!Empty \/ Key[all[n]] \in Env!Keys(f[n - 1]) THEN f[n - 1]
            ELSE Append(f[n - 1], all[n])]

LEMMA UniqueByEntry ==
    ASSUME NEW all \in Seq(DOMAIN Key)
    PROVE  \E f : /\ Env!Unique(all) = f[Len(all)] /\ f[0] = <<>>
                  /\ \A n \in 1..Len(all) : f[n] = Grown(f[n - 1], all[n])
  <1>1. PICK L, Z : L = Len(all) /\ Z = Seq(DOMAIN Key)
    OBVIOUS
  <1>2. L \in Nat /\ <<>> \in Z /\ \A n \in 1..L : all[n] \in DOMAIN Key
    BY <1>1
  <1>3. PICK step : step = [n \in 1..L |-> [v \in Z |-> Grown(v, all[n])]]
    OBVIOUS
  <1>4. step \in [1..L -> [Z -> Z]]
    <2>1. ASSUME NEW n \in 1..L, NEW v \in Z PROVE Grown(v, all[n]) \in Z
      <3>1. Append(v, all[n]) \in Z
        BY <1>1, <1>2
      <3> QED
        BY <3>1 DEF Grown
    <2> QED
      BY <1>3, <2>1
  <1>5. PICK g \in [0..L -> Z] : IsStepwise(g, L, <<>>, step)
    BY <1>2, <1>4, Stepwise
  <1>6. \A n \in 1..L : g[n] = Grown(g[n - 1], all[n])
    <2>1. ASSUME NEW n \in 1..L PROVE g[n] = Grown(g[n - 1], all[n])
      <3>1. g[n - 1] \in Z
        BY <1>2, <1>5
      <3>2. g[n] = step[n][g[n - 1]]
        BY <1>5 DEF IsStepwise
      <3> QED
        BY <1>3, <3>1, <3>2
    <2> QED
      BY <2>1
  <1>7. KeptIs(g, all)
    <2>1. ASSUME NEW n \in 0..L
          PROVE  g[n] = IF n = 0 THEN <<>>
                        ELSE IF all[n] = Env!Empty \/ Key[all[n]] \in Env!Keys(g[n - 1]) THEN g[n - 1]
                        ELSE Append(g[n - 1], all[n])
      <3>1. CASE n = 0
        BY <1>5, <3>1 DEF IsStepwise
      <3>2. CASE n # 0
        <4>1. n \in 1..L
          BY <1>2, <3>2
        <4> QED
          BY <1>6, <3>2, <4>1 DEF Grown
      <3> QED
        BY <3>1, <3>2
    <2> QED
      BY <1>1, <1>5, <2>1 DEF KeptIs
  <1>8. PICK f : f = CHOOSE x : KeptIs(x, all)
    OBVIOUS
  <1>9. KeptIs(f, all)
    BY <1>7, <1>8
  <1>10. Env!Unique(all) = f[L]
    BY <1>1, <1>8, Zenon DEF Env!Unique, KeptIs
  <1>11. \A n \in 0..L : f[n] = IF n = 0 THEN <<>>
                                ELSE IF all[n] = Env!Empty \/ Key[all[n]] \in Env!Keys(f[n - 1]) THEN f[n - 1]
                                ELSE Append(f[n - 1], all[n])
    <2>1. f = [n \in 0..L |-> IF n = 0 THEN <<>>
                              ELSE IF all[n] = Env!Empty \/ Key[all[n]] \in Env!Keys(f[n - 1]) THEN f[n - 1]
                              ELSE Append(f[n - 1], all[n])]
      BY <1>1, <1>9 DEF KeptIs
    <2> QED
      BY <2>1
  <1>12. f[0] = <<>>
    BY <1>2, <1>11
  <1>13. ASSUME NEW n \in 1..L PROVE f[n] = Grown(f[n - 1], all[n])
    <2>1. n \in 0..L /\ n # 0
      BY <1>2
    <2> QED
      BY <1>11, <2>1 DEF Grown
  <1> QED
    BY <1>1, <1>10, <1>12, <1>13

(* The whole list.                                                         *)
LEMMA UniqueKeeps ==
    ASSUME NEW all \in Seq(DOMAIN Key)
    PROVE  KeptOK(Env!Unique(all), all, Len(all))
  <1>1. PICK f : /\ Env!Unique(all) = f[Len(all)] /\ f[0] = <<>>
                 /\ \A n \in 1..Len(all) : f[n] = Grown(f[n - 1], all[n])
    BY UniqueByEntry
  <1>2. PICK L : L = Len(all)
    OBVIOUS
  <1>3. L \in Nat
    BY <1>2
  <1> DEFINE Wrong == {n \in 0..L : ~KeptOK(f[n], all, n)}
  <1>4. Wrong = {}
    <2> SUFFICES ASSUME Wrong # {} PROVE FALSE
      OBVIOUS
    <2>1. PICK n \in Wrong : \A k \in Wrong : n <= k
      <3>1. Wrong \in SUBSET Nat
        BY <1>3
      <3> HIDE DEF Wrong
      <3> QED
        BY <3>1, LeastMember
    <2>2. n # 0
      <3>1. KeptOK(<<>>, all, 0)
        BY DEF KeptOK
      <3> QED
        BY <1>1, <2>1, <3>1
    <2>3. n \in 1..L /\ n - 1 \in 0..L /\ n \in Int
      BY <1>3, <2>2
    <2>4. KeptOK(f[n - 1], all, n - 1)
      BY <2>1, <2>3
    <2>5. KeptOK(Grown(f[n - 1], all[n]), all, n)
      BY <1>2, <2>3, <2>4, KeptAfter
    <2>6. KeptOK(f[n], all, n)
      BY <1>1, <1>2, <2>3, <2>5
    <2> QED
      BY <2>1, <2>6
  <1>5. L \in 0..L
    BY <1>3
  <1>6. KeptOK(f[L], all, L)
    BY <1>4, <1>5
  <1> QED
    BY <1>1, <1>2, <1>6

(* What PathIsMerged says of the list that is written.                     *)
MergedOK(new, old, more) ==
    /\ Env!Keys(new) = Env!Keys(old) \cup Env!Keys(more)
    /\ Cardinality(Env!Keys(new)) = Len(new)
    /\ \A a, b \in Env!Keys(old) : Env!First(old, a) < Env!First(old, b) => Env!First(new, a) < Env!First(new, b)
    /\ \A a \in Env!Keys(old), b \in Env!Keys(more) \ Env!Keys(old) : Env!First(new, a) < Env!First(new, b)

LEMMA FirstEntry ==
    ASSUME NEW v \in Seq(DOMAIN Key), NEW k \in Env!Keys(v)
    PROVE  /\ Env!First(v, k) \in DOMAIN v /\ Key[v[Env!First(v, k)]] = k
           /\ \A j \in 1..(Env!First(v, k) - 1) : Key[v[j]] # k
  <1>1. PICK T : T = {i \in DOMAIN v : Key[v[i]] = k}
    OBVIOUS
  <1>2. T # {} /\ T \in SUBSET Nat
    BY <1>1, EntryKeys
  <1>3. PICK i \in T : \A j \in T : i <= j
    BY <1>2, LeastMember
  <1>4. ASSUME NEW j \in 1..(i - 1) PROVE Key[v[j]] # k
    <2>1. j \in DOMAIN v /\ ~(i <= j)
      BY <1>1, <1>3
    <2> QED
      BY <1>1, <1>3, <2>1
  <1>5. i \in DOMAIN v /\ Key[v[i]] = k
    BY <1>1
  <1> QED
    BY <1>4, <1>5 DEF Env!First

(* Different keys at every position: as many keys as entries.              *)
LEMMA KeysCounted ==
    ASSUME NEW v \in Seq(DOMAIN Key), \A j \in DOMAIN v : v[j] # Env!Empty,
           \A j, k \in DOMAIN v : Key[v[j]] = Key[v[k]] => j = k
    PROVE  Cardinality(Env!Keys(v)) = Len(v)
  <1>1. PICK L, K : L = Len(v) /\ K = Env!Keys(v)
    OBVIOUS
  <1>2. L \in Nat /\ DOMAIN v = 1..L
    BY <1>1
  <1>3. PICK f : f = [j \in 1..L |-> Key[v[j]]]
    OBVIOUS
  <1>4. \A j \in 1..L : f[j] \in K
    BY <1>1, <1>2, <1>3, EntryKeys
  <1>5. \A j, k \in 1..L : f[j] = f[k] => j = k
    BY <1>2, <1>3
  <1>6. \A k \in K : \E j \in 1..L : f[j] = k
    BY <1>1, <1>2, <1>3, EntryKeys
  <1>7. f \in Bijection(1..L, K)
    BY <1>3, <1>4, <1>5, <1>6 DEF Bijection, Injection, IsInjective, Surjection
  <1>8. ExistsBijection(1..L, K)
    BY <1>7 DEF ExistsBijection
  <1>9. IsFiniteSet(1..L) /\ Cardinality(1..L) = L
    BY <1>2, FS_Interval
  <1>10. Cardinality(1..L) = Cardinality(K)
    BY <1>8, <1>9, FS_Bijection
  <1> QED
    BY <1>1, <1>9, <1>10

LEMMA MergeFacts ==
    ASSUME NEW old \in Seq(DOMAIN Key), NEW more \in Seq(DOMAIN Key)
    PROVE  MergedOK(Env!AppendUnique(old, more), old, more)
  <1>1. PICK all, new, L, n : /\ all = old \o more /\ new = Env!AppendUnique(old, more)
                              /\ L = Len(all) /\ n = Len(old)
    OBVIOUS
  <1>2. /\ all \in Seq(DOMAIN Key) /\ L = n + Len(more) /\ L \in Nat /\ n \in Nat
        /\ DOMAIN all = 1..L /\ DOMAIN old = 1..n
        /\ (\A i \in 1..n : all[i] = old[i]) /\ \A i \in 1..Len(more) : all[n + i] = more[i]
    BY <1>1
  <1>3. KeptOK(new, all, L)
    BY <1>1, <1>2, UniqueKeeps DEF Env!AppendUnique
  <1>4. new \in Seq(DOMAIN Key)
    BY <1>3 DEF KeptOK
  <1>5. Env!Keys(new) = Env!Keys(all)
    <2>1. ASSUME NEW k \in Env!Keys(new) PROVE k \in Env!Keys(all)
      <3>1. PICK j \in DOMAIN new : new[j] # Env!Empty /\ Key[new[j]] = k
        BY <1>4, EntryKeys
      <3>2. PICK i \in 1..L : all[i] = new[j]
        BY <1>3 DEF KeptOK
      <3> QED
        BY <1>2, <3>1, <3>2, EntryKeys
    <2>2. ASSUME NEW k \in Env!Keys(all) PROVE k \in Env!Keys(new)
      <3>1. PICK i \in DOMAIN all : all[i] # Env!Empty /\ Key[all[i]] = k
        BY <1>2, EntryKeys
      <3>2. PICK j \in DOMAIN new : Key[new[j]] = Key[all[i]]
        BY <1>2, <1>3, <3>1 DEF KeptOK
      <3>3. new[j] # Env!Empty
        BY <1>3 DEF KeptOK
      <3> QED
        BY <1>4, <3>1, <3>2, <3>3, EntryKeys
    <2> QED
      BY <2>1, <2>2
  <1>6. Env!Keys(all) = Env!Keys(old) \cup Env!Keys(more)
    <2>1. \A i \in DOMAIN all : i \in 1..n \/ (i - n \in 1..Len(more) /\ n + (i - n) = i)
      BY <1>2
    <2>2. \A i \in DOMAIN all : (i \in DOMAIN old /\ all[i] = old[i]) \/ (i - n \in DOMAIN more /\ all[i] = more[i - n])
      BY <1>2, <2>1
    <2>3. \A i \in DOMAIN old : i \in DOMAIN all /\ all[i] = old[i]
      BY <1>2
    <2>4. \A i \in DOMAIN more : n + i \in DOMAIN all /\ all[n + i] = more[i]
      BY <1>2
    <2>5. Env!Keys(all) \subseteq Env!Keys(old) \cup Env!Keys(more)
      BY <2>2 DEF Env!Keys
    <2>6. Env!Keys(old) \subseteq Env!Keys(all)
      BY <2>3 DEF Env!Keys
    <2>7. Env!Keys(more) \subseteq Env!Keys(all)
      BY <2>4 DEF Env!Keys
    <2> QED
      BY <2>5, <2>6, <2>7
  <1>7. Cardinality(Env!Keys(new)) = Len(new)
    BY <1>3, KeysCounted DEF KeptOK
  (* Were b before a in the new list, b would occur in the old one before  *)
  (* the first a.                                                          *)
  <1>8. ASSUME NEW a \in Env!Keys(old), NEW b \in Env!Keys(new), a # b,
               ~(Env!First(new, a) < Env!First(new, b))
        PROVE  \E at \in 1..(Env!First(old, a) - 1) : at \in DOMAIN old /\ Key[old[at]] = b
    <2>1. PICK i, j, k : i = Env!First(old, a) /\ j = Env!First(new, b) /\ k = Env!First(new, a)
      OBVIOUS
    <2>2. a \in Env!Keys(new)
      BY <1>5, <1>6
    <2>3. i \in DOMAIN old /\ Key[old[i]] = a
      BY <2>1, FirstEntry
    <2>4. j \in DOMAIN new /\ Key[new[j]] = b /\ k \in DOMAIN new /\ Key[new[k]] = a
      BY <1>4, <2>1, <2>2, FirstEntry
    <2>5. j # k /\ j \in Int /\ k \in Int
      BY <1>4, <1>8, <2>4
    <2>6. j < k
      BY <1>8, <2>1, <2>5
    <2>7. i \in 1..n /\ i \in 1..L /\ Key[all[i]] = a
      BY <1>2, <2>3
    <2>8. PICK at \in 1..(i - 1) : Key[all[at]] = Key[new[j]]
      BY <1>3, <2>4, <2>6, <2>7 DEF KeptOK
    <2>9. at \in 1..n
      BY <1>2, <2>7, <2>8
    <2> QED
      BY <1>2, <2>1, <2>4, <2>8, <2>9
  <1>9. ASSUME NEW a \in Env!Keys(old), NEW b \in Env!Keys(old), Env!First(old, a) < Env!First(old, b)
        PROVE  Env!First(new, a) < Env!First(new, b)
    <2> SUFFICES ASSUME ~(Env!First(new, a) < Env!First(new, b)) PROVE FALSE
      OBVIOUS
    <2>1. PICK i, k : i = Env!First(old, a) /\ k = Env!First(old, b)
      OBVIOUS
    <2>2. i \in DOMAIN old /\ k \in DOMAIN old /\ Key[old[i]] = a /\ Key[old[k]] = b
          /\ \A j \in 1..(k - 1) : Key[old[j]] # b
      BY <2>1, FirstEntry
    <2>3. i \in 1..n /\ k \in 1..n /\ i < k
      BY <1>2, <1>9, <2>1, <2>2
    <2>4. a # b
      BY <2>1, <2>3
    <2>5. b \in Env!Keys(new)
      BY <1>5, <1>6
    <2>6. PICK at \in 1..(i - 1) : Key[old[at]] = b
      BY <1>8, <2>1, <2>4, <2>5
    <2>7. at \in 1..(k - 1)
      BY <1>2, <2>3, <2>6
    <2> QED
      BY <2>2, <2>6, <2>7
  <1>10. ASSUME NEW a \in Env!Keys(old), NEW b \in Env!Keys(more) \ Env!Keys(old)
         PROVE  Env!First(new, a) < Env!First(new, b)
    <2> SUFFICES ASSUME ~(Env!First(new, a) < Env!First(new, b)) PROVE FALSE
      OBVIOUS
    <2>1. b \in Env!Keys(new) /\ a # b /\ b # Env!Empty
      BY <1>5, <1>6, EntryKeys
    <2>2. PICK at \in DOMAIN old : Key[old[at]] = b
      BY <1>8, <2>1
    <2>3. b \in Env!Keys(old)
      BY <2>1, <2>2 DEF Env!Keys
    <2> QED
      BY <2>3
  <1> QED
    BY <1>1, <1>5, <1>6, <1>7, <1>9, <1>10 DEF MergedOK

(* What the handler is about to write: the merge of the Path it has read,  *)
(* or a value that it has found not to look secret.                        *)
IsPath(d, old) == d.kind = "path" /\ d.name = "Path" /\ d.value = Env!AppendUnique(old, op.value)
IsValue(d) ==
    d.kind = "value" /\ d.name \in Env!Names /\ d.value \in Seq(DOMAIN Key) /\ ~Env!LooksSecret(d.name, d.value)

EnvironmentInv ==
    /\ op \in UserOperations /\ registry \in [Env!Names -> Env!Values]
    /\ pc \in {"apply", "write"} =>
          seen \in Seq(DOMAIN Key) /\ (IsPath(desired, seen) \/ IsValue(desired))

LEMMA EnvironmentStart == ASSUME Env!EnvInit PROVE EnvironmentInv
  BY UserAssumption DEF Env!EnvironmentAssumption, Env!EnvInit, EnvironmentInv

LEMMA OperationFacts ==
    ASSUME EnvironmentInv
    PROVE  /\ op.kind \in {"literal", "reference", "secret", "append"}
           /\ op.value \in Seq(DOMAIN Key) /\ op.name \in Env!Names /\ op.source \in Env!Names
           /\ \A x \in Env!Names : registry[x].value \in Seq(DOMAIN Key)
           /\ "Path" \in Env!Names
  <1>1. \A x \in Env!Names : registry[x] \in Env!Values
    BY DEF EnvironmentInv
  <1>2. \A x \in Env!Names : registry[x].value \in Seq(DOMAIN Key)
    BY <1>1 DEF Env!Values
  <1> QED
    BY <1>2, UserAssumption DEF Env!EnvironmentAssumption, EnvironmentInv, Env!Names

(* What desired returns.                                                   *)
LEMMA DesiredFacts ==
    ASSUME EnvironmentInv, Env!Desired.kind \notin {"error", "manual"}
    PROVE  IsPath(Env!Desired, registry["Path"].value) \/ IsValue(Env!Desired)
  <1>1. CASE op.kind = "append"
    <2>1. Env!Desired = Env!DesiredPath
      BY <1>1 DEF Env!Desired
    <2>2. Env!DesiredPath \in {Env!Failure, [kind |-> "path", name |-> "Path",
                                value |-> Env!AppendUnique(registry["Path"].value, op.value)]}
      BY DEF Env!DesiredPath
    <2>3. Env!Failure.kind = "error"
      BY DEF Env!Failure
    <2> QED
      BY <2>1, <2>2, <2>3 DEF IsPath
  <1>2. CASE op.kind = "reference"
    <2>1. Env!Desired = Env!DesiredReference
      BY <1>2 DEF Env!Desired
    <2>2. \/ Env!DesiredReference \in {Env!Failure, Env!Manual}
          \/ /\ Env!DesiredReference = [kind |-> "value", name |-> op.name, value |-> registry[op.source].value]
             /\ ~Env!LooksSecret(op.name, registry[op.source].value)
      BY DEF Env!DesiredReference
    <2>3. Env!Failure.kind = "error" /\ Env!Manual.kind = "manual"
      BY DEF Env!Failure, Env!Manual
    <2> QED
      BY <2>1, <2>2, <2>3, OperationFacts DEF IsValue
  <1>3. CASE op.kind = "literal"
    <2>1. \/ Env!Desired \in {Env!Failure, Env!Manual}
          \/ /\ Env!Desired = [kind |-> "value", name |-> op.name, value |-> op.value]
             /\ ~Env!LooksSecret(op.name, op.value)
      BY <1>3 DEF Env!Desired
    <2>2. Env!Failure.kind = "error" /\ Env!Manual.kind = "manual"
      BY DEF Env!Failure, Env!Manual
    <2> QED
      BY <2>1, <2>2, OperationFacts DEF IsValue
  <1>4. CASE op.kind = "secret"
    BY <1>4 DEF Env!Desired, Env!Manual
  <1> QED
    BY <1>1, <1>2, <1>3, <1>4, OperationFacts

LEMMA EnvironmentStepInv == EnvironmentInv /\ Env!EnvNext => EnvironmentInv'
  <1> SUFFICES ASSUME EnvironmentInv, Env!EnvNext PROVE EnvironmentInv'
    OBVIOUS
  <1>1. CASE Env!IsSatisfied
    <2>1. UNCHANGED <<op, registry>> /\ pc' \in {"idle", "execute"}
      BY <1>1 DEF Env!IsSatisfied, Env!Ends
    <2> QED
      BY <2>1 DEF EnvironmentInv
  <1>2. CASE Env!Execute
    <2>1. UNCHANGED <<op, registry>>
      BY <1>2 DEF Env!Execute
    <2>2. pc' = "idle" \/ /\ pc' = "apply" /\ desired' = Env!Desired /\ seen' = registry["Path"].value
                          /\ Env!Desired.kind \notin {"error", "manual"}
      BY <1>2 DEF Env!Execute, Env!Ends
    <2>3. CASE pc' = "idle"
      BY <2>1, <2>3 DEF EnvironmentInv
    <2>4. CASE /\ pc' = "apply" /\ desired' = Env!Desired /\ seen' = registry["Path"].value
               /\ Env!Desired.kind \notin {"error", "manual"}
      <3>1. IsPath(Env!Desired, registry["Path"].value) \/ IsValue(Env!Desired)
        BY <2>4, DesiredFacts
      <3>2. IsPath(desired, seen)' \/ IsValue(desired)'
        BY <2>1, <2>4, <3>1 DEF IsPath, IsValue
      <3>3. seen' \in Seq(DOMAIN Key)
        BY <2>4, OperationFacts
      <3> QED
        BY <2>1, <3>2, <3>3 DEF EnvironmentInv
    <2> QED
      BY <2>2, <2>3, <2>4
  <1>3. CASE Env!Compare
    <2>1. pc = "apply" /\ pc' \in {"idle", "write"} /\ UNCHANGED <<op, registry, desired, seen>>
      BY <1>3 DEF Env!Compare, Env!Ends
    <2> QED
      BY <2>1 DEF EnvironmentInv, IsPath, IsValue
  <1>4. CASE Env!Write
    <2>1. pc' \in {"idle", "broadcast"} /\ UNCHANGED op
      BY <1>4 DEF Env!Write, Env!Ends
    <2>2. \/ registry' = registry
          \/ registry' = [registry EXCEPT ![desired.name] = [type |-> "sz", value |-> desired.value]]
      BY <1>4 DEF Env!Write
    <2>3. desired.name \in Env!Names /\ desired.value \in Seq(DOMAIN Key)
      <3>1. CASE IsPath(desired, seen)
        <4>1. desired.value = Env!Unique(seen \o op.value) /\ seen \o op.value \in Seq(DOMAIN Key)
          BY <1>4, <3>1, OperationFacts DEF EnvironmentInv, IsPath, Env!Write, Env!AppendUnique
        <4>2. Env!Unique(seen \o op.value) \in Seq(DOMAIN Key)
          BY <4>1, UniqueKeeps DEF KeptOK
        <4> QED
          BY <3>1, <4>1, <4>2, OperationFacts DEF IsPath
      <3>2. CASE IsValue(desired)
        BY <3>2 DEF IsValue
      <3> QED
        BY <1>4, <3>1, <3>2 DEF EnvironmentInv, Env!Write
    <2>4. [type |-> "sz", value |-> desired.value] \in Env!Values
      BY <2>3 DEF Env!Values
    <2>5. registry' \in [Env!Names -> Env!Values]
      BY <2>2, <2>3, <2>4 DEF EnvironmentInv
    <2> QED
      BY <2>1, <2>5 DEF EnvironmentInv
  <1>5. CASE Env!Broadcast \/ Env!Crash
    <2>1. UNCHANGED <<op, registry>> /\ pc' = "idle"
      BY <1>5 DEF Env!Broadcast, Env!Crash, Env!Ends
    <2> QED
      BY <2>1 DEF EnvironmentInv
  <1>6. CASE Env!Other
    <2>1. UNCHANGED <<op, pc, desired, seen>>
      BY <1>6 DEF Env!Other
    <2>2. registry' \in [Env!Names -> Env!Values]
      <3>1. registry \in [Env!Names -> Env!Values] /\ {"Path", "V", "W"} \subseteq Env!Names
        BY DEF EnvironmentInv, Env!Names
      <3>2. \A x \in Env!Names : registry[x].value \in Seq(DOMAIN Key) /\ registry[x] \in Env!Values
        BY <3>1, OperationFacts
      <3>3. Foreign \subseteq DOMAIN Key /\ Secret \ Env!Names \subseteq DOMAIN Key
        BY UserAssumption DEF Env!EnvironmentAssumption
      <3>4. ASSUME NEW x \in Foreign,
                   registry' = [registry EXCEPT !["Path"].value = Append(@, x), !["Path"].type = "expand"]
            PROVE  registry' \in [Env!Names -> Env!Values]
        <4>1. PICK v : v = [registry["Path"] EXCEPT !.value = Append(registry["Path"].value, x), !.type = "expand"]
          OBVIOUS
        <4>2. Append(registry["Path"].value, x) \in Seq(DOMAIN Key)
          BY <3>1, <3>2, <3>3
        <4>3. v \in Env!Values
          BY <3>1, <3>2, <4>1, <4>2 DEF Env!Values
        <4>4. registry' = [registry EXCEPT !["Path"] = v]
          BY <3>1, <3>4, <4>1
        <4> QED
          BY <3>1, <4>3, <4>4
      <3>5. ASSUME NEW x \in Secret \ Env!Names, registry' = [registry EXCEPT !["W"] = [type |-> "sz", value |-> <<x>>]]
            PROVE  registry' \in [Env!Names -> Env!Values]
        <4>1. [type |-> "sz", value |-> <<x>>] \in Env!Values
          BY <3>3 DEF Env!Values
        <4> QED
          BY <3>1, <3>5, <4>1
      <3>6. ASSUME registry' = [registry EXCEPT !["V"].type = "other"]
            PROVE  registry' \in [Env!Names -> Env!Values]
        <4>1. PICK v : v = [registry["V"] EXCEPT !.type = "other"]
          OBVIOUS
        <4>2. v \in Env!Values
          BY <3>1, <3>2, <4>1 DEF Env!Values
        <4>3. registry' = [registry EXCEPT !["V"] = v]
          BY <3>1, <3>6, <4>1
        <4> QED
          BY <3>1, <4>2, <4>3
      <3> QED
        BY <1>6, <3>4, <3>5, <3>6 DEF Env!Other
    <2> QED
      BY <2>1, <2>2 DEF EnvironmentInv, IsPath, IsValue
  <1> QED
    BY <1>1, <1>2, <1>3, <1>4, <1>5, <1>6 DEF Env!EnvNext

LEMMA EnvironmentWrites ==
    ASSUME EnvironmentInv, Env!EnvNext
    PROVE  Env!PathIsMerged /\ Env!NoSecretIsCopied
  <1> SUFFICES ASSUME pc = "write", pc' = "broadcast"
               PROVE  /\ desired.kind = "path" => MergedOK(registry'["Path"].value, seen, op.value)
                      /\ desired.kind = "value" => ~Env!LooksSecret(desired.name, registry'[desired.name].value)
    <2>1. \A S : Env!Cardinality(S) = Cardinality(S)
      BY Zenon DEF Env!Cardinality, Cardinality, Env!IsFiniteSet, IsFiniteSet
    <2> QED
      BY <2>1, Zenon DEF Env!PathIsMerged, Env!NoSecretIsCopied, MergedOK
  <1>1. registry' = [registry EXCEPT ![desired.name] = [type |-> "sz", value |-> desired.value]]
    BY DEF Env!EnvNext, Env!IsSatisfied, Env!Execute, Env!Compare, Env!Write, Env!Broadcast, Env!Crash,
           Env!Other, Env!Ends
  <1>2. desired.name \in Env!Names => registry'[desired.name].value = desired.value
    BY <1>1 DEF EnvironmentInv
  <1>3. CASE IsPath(desired, seen)
    <2>1. registry'["Path"].value = Env!AppendUnique(seen, op.value)
      BY <1>2, <1>3, OperationFacts DEF IsPath
    <2>2. MergedOK(registry'["Path"].value, seen, op.value)
      BY <2>1, MergeFacts, OperationFacts DEF EnvironmentInv
    <2> QED
      BY <1>3, <2>2 DEF IsPath
  <1>4. CASE IsValue(desired)
    BY <1>2, <1>4 DEF IsValue
  <1> QED
    BY <1>3, <1>4 DEF EnvironmentInv

(* Whatever other programs write meanwhile and whenever an attempt stops,  *)
(* Path is written as the merge of the Path that was read and the entries  *)
(* of the operation, and a variable is set to nothing that looks secret.   *)
THEOREM EnvironmentIsAlwaysMerged == MCSpec => EnvironmentIsMerged
  <1>1. MCInit => (part = "environment" => EnvironmentInv)
    BY EnvironmentStart DEF MCInit
  <1>2. ASSUME [MCNext]_mcVars, part = "environment" \/ part' = "environment"
        PROVE  part = "environment" /\ part' = "environment" /\ (Env!EnvNext \/ UNCHANGED Env!envVars)
    BY <1>2 DEF MCNext, WriteStep, SubsystemStep, EnvironmentStep, McpStep,
                StagingStep, InstallStep, BrowserStep, mcVars, Env!envVars
  <1>3. EnvironmentInv /\ UNCHANGED Env!envVars => EnvironmentInv' /\ Env!PathIsMerged /\ Env!NoSecretIsCopied
    BY DEF EnvironmentInv, IsPath, IsValue, Env!envVars, Env!PathIsMerged, Env!NoSecretIsCopied
  <1>4. (part = "environment" => EnvironmentInv) /\ [MCNext]_mcVars => (part = "environment" => EnvironmentInv)'
    BY <1>2, <1>3, EnvironmentStepInv
  <1>5. (part = "environment" => EnvironmentInv) /\ [MCNext]_mcVars
          => [part = "environment" => Env!PathIsMerged /\ Env!NoSecretIsCopied]_mcVars
    BY <1>2, <1>3, EnvironmentWrites
  <1> QED
    BY <1>1, <1>4, <1>5, PTL DEF MCSpec, EnvironmentIsMerged


-----------------------------------------------------------------------------
(* The install handlers.                                                   *)

(* An attempt that is under way has no outcome yet, and what the scan saw  *)
(* is what is installed when it is looked at.                              *)
InstallInv ==
    /\ pc # "scan" => outcome = "none"
    /\ pc = "check" => facts = machine
    /\ Install!ExactIsInstalled

LEMMA InstallStart == ASSUME Install!PiInit PROVE InstallInv
  BY DEF Install!PiInit, InstallInv, Install!ExactIsInstalled

LEMMA InstallStepInv == ASSUME InstallInv, Install!PiNext PROVE InstallInv'
  <1>1. ASSUME Install!InstalledExact(req, machine) PROVE Install!IsInstalled
    BY <1>1 DEF Install!InstalledExact, Install!IsInstalled
  <1>2. ASSUME UNCHANGED <<req, machine>>, Install!IsInstalled PROVE Install!IsInstalled'
    BY <1>2 DEF Install!IsInstalled
  <1>3. CASE Install!Scan
    BY <1>3 DEF Install!Scan, InstallInv, Install!ExactIsInstalled
  <1>4. CASE Install!IsSatisfied
    <2>1. pc = "check" /\ Install!Seen = machine /\ outcome = "none" /\ UNCHANGED <<req, machine>>
      BY <1>4 DEF Install!IsSatisfied, Install!Seen, InstallInv
    <2>2. \/ pc' = "scan" /\ outcome' = "invalid"
          \/ pc' = "scan" /\ Install!InstalledExact(req, machine)
          \/ pc' = "execute" /\ outcome' = "none"
      BY <1>4, <2>1 DEF Install!IsSatisfied, Install!Ends
    <2> QED
      BY <1>1, <1>2, <2>1, <2>2 DEF InstallInv, Install!ExactIsInstalled
  <1>5. CASE Install!Execute
    <2>1. \/ pc' = "scan" /\ outcome' \in {"cancelled", "waiting"}
          \/ pc' \in {"list", "install"} /\ outcome' = "none"
      BY <1>5 DEF Install!Execute, Install!Ends, InstallInv
    <2> QED
      BY <2>1 DEF InstallInv, Install!ExactIsInstalled
  <1>6. CASE Install!ListExtensions
    <2>1. /\ UNCHANGED <<req, machine>>
          /\ \/ pc' = "scan" /\ outcome' \in {"failed", "cancelled", "waiting"}
             \/ pc' = "scan" /\ Install!InstalledExact(req, machine)
             \/ pc' = "install" /\ outcome' = "none"
      BY <1>6 DEF Install!ListExtensions, Install!Ends, InstallInv
    <2> QED
      BY <1>1, <1>2, <2>1 DEF InstallInv, Install!ExactIsInstalled
  <1>7. CASE Install!RunInstall
    <2>1. pc = "install" /\ outcome = "none"
      BY <1>7 DEF Install!RunInstall, InstallInv
    <2>2. \/ pc' = "verify" /\ outcome' = "none"
          \/ pc' = "scan" /\ outcome' \in {"failed", "cancelled"}
      BY <1>7, <2>1 DEF Install!RunInstall, Install!Ends
    <2> QED
      BY <2>2 DEF InstallInv, Install!ExactIsInstalled
  <1>8. CASE Install!RunVerify
    <2>1. /\ UNCHANGED <<req, machine>> /\ pc' = "scan"
          /\ outcome' \in {"cancelled", "reboot", "failed"} \/ (outcome' = "completed" /\ Install!Verified(req))
      BY <1>8 DEF Install!RunVerify, Install!Ends
    <2>2. ASSUME Install!Verified(req), req.provider = "vscode" PROVE Install!IsInstalled
      <3>1. PICK e \in Install!Listing(req) : e.id = req.id /\ e.version = req.version
        BY <2>2 DEF Install!Verified, Install!ExtensionListed
      <3>2. e \in machine
        BY <3>1 DEF Install!Listing
      <3> QED
        BY <3>1, <3>2 DEF Install!IsInstalled
    <2> QED
      BY <1>2, <2>1, <2>2 DEF InstallInv, Install!ExactIsInstalled
  <1>9. CASE Install!Crash
    BY <1>9 DEF Install!Crash, Install!Ends, InstallInv, Install!ExactIsInstalled
  <1>10. CASE Install!Reboot
    BY <1>10 DEF Install!Reboot, InstallInv, Install!ExactIsInstalled
  <1>11. CASE Install!Acknowledge
    <2>1. pc' = "scan" /\ outcome' = "acknowledged"
      BY <1>11 DEF Install!Acknowledge
    <2> QED
      BY <2>1 DEF InstallInv, Install!ExactIsInstalled
  <1> QED
    BY <1>3, <1>4, <1>5, <1>6, <1>7, <1>8, <1>9, <1>10, <1>11 DEF Install!PiNext


-----------------------------------------------------------------------------
(* Payloads: the parts of an artifact put together.                        *)

(* A set of positions that holds zero and every successor is all of them.  *)
LEMMA Upward ==
    ASSUME NEW L \in Nat, NEW T, 0 \in T, \A n \in 1..L : n - 1 \in T => n \in T
    PROVE  \A n \in 0..L : n \in T
  <1> DEFINE Missing == {n \in 0..L : n \notin T}
  <1>1. Missing = {}
    <2> SUFFICES ASSUME Missing # {} PROVE FALSE
      OBVIOUS
    <2>1. PICK n \in Missing : \A k \in Missing : n <= k
      <3>1. Missing \in SUBSET Nat
        OBVIOUS
      <3> HIDE DEF Missing
      <3> QED
        BY <3>1, LeastMember
    <2>2. n # 0
      OBVIOUS
    <2>3. n \in 1..L /\ n - 1 \in 0..L /\ ~(n <= n - 1)
      BY <2>2
    <2>4. n - 1 \in T
      BY <2>1, <2>3
    <2> QED
      BY <2>1, <2>3, <2>4
  <1> QED
    BY <1>1

(* The payloads of the first parts of an artifact.                         *)
Joins(f, s) ==
    /\ f \in [0..Len(s) -> Seq(Bytes)] /\ f[0] = <<>>
    /\ \A n \in 1..Len(s) : f[n] = f[n - 1] \o s[n]

FlattenIs(f, s) == f = [i \in 1..Len(s) |-> IF i = 1 THEN s[i] ELSE f[i - 1] \o s[i]]

LEMMA FlattenByPart ==
    ASSUME NEW s \in Seq(Seq(Bytes))
    PROVE  \E f : Joins(f, s) /\ Staging!FlattenSeq(s) = f[Len(s)]
  <1>1. PICK L, Z : L = Len(s) /\ Z = Seq(Bytes)
    OBVIOUS
  <1>2. L \in Nat /\ <<>> \in Z /\ \A n \in 1..L : s[n] \in Z
    BY <1>1
  <1>3. PICK step : step = [n \in 1..L |-> [v \in Z |-> v \o s[n]]]
    OBVIOUS
  <1>4. step \in [1..L -> [Z -> Z]]
    <2>1. ASSUME NEW n \in 1..L, NEW v \in Z PROVE v \o s[n] \in Z
      BY <1>1, <1>2
    <2> QED
      BY <1>3, <2>1
  <1>5. PICK g \in [0..L -> Z] : IsStepwise(g, L, <<>>, step)
    BY <1>2, <1>4, Stepwise
  <1>6. g[0] = <<>> /\ \A n \in 1..L : g[n] = g[n - 1] \o s[n]
    <2>1. ASSUME NEW n \in 1..L PROVE g[n] = g[n - 1] \o s[n]
      <3>1. g[n - 1] \in Z
        BY <1>2, <1>5
      <3>2. g[n] = step[n][g[n - 1]]
        BY <1>5 DEF IsStepwise
      <3> QED
        BY <1>3, <3>1, <3>2
    <2> QED
      BY <1>5, <2>1 DEF IsStepwise
  <1>7. Joins(g, s)
    BY <1>1, <1>5, <1>6 DEF Joins
  <1>8. CASE L = 0
    <2>1. s = <<>>
      BY <1>1, <1>8, EmptySeq
    <2>2. Staging!FlattenSeq(s) = s
      BY <1>1, <1>8 DEF Staging!FlattenSeq
    <2> QED
      BY <1>1, <1>6, <1>7, <1>8, <2>1, <2>2
  <1>9. CASE L # 0
    <2>1. PICK w : w = [i \in 1..L |-> g[i]]
      OBVIOUS
    <2>2. FlattenIs(w, s)
      <3>1. ASSUME NEW i \in 1..L PROVE w[i] = IF i = 1 THEN s[i] ELSE w[i - 1] \o s[i]
        <4>1. CASE i = 1
          <5>0. 1 \in 1..L /\ 1 - 1 = 0
            BY <4>1
          <5>1. g[1] = <<>> \o s[1] /\ s[1] \in Z
            BY <1>2, <1>6, <5>0
          <5> QED
            BY <1>1, <2>1, <4>1, <5>1
        <4>2. CASE i # 1
          <5>1. i - 1 \in 1..L
            BY <1>2, <4>2
          <5> QED
            BY <1>6, <2>1, <4>2, <5>1
        <4> QED
          BY <4>1, <4>2
      <3> QED
        BY <1>1, <2>1, <3>1 DEF FlattenIs
    <2>3. PICK f : f = CHOOSE x : FlattenIs(x, s)
      OBVIOUS
    <2>4. FlattenIs(f, s)
      BY <2>2, <2>3
    <2>5. Staging!FlattenSeq(s) = f[L]
      BY <1>1, <1>9, <2>3, Zenon DEF Staging!FlattenSeq, FlattenIs
    <2>6. \A i \in 1..L : f[i] = IF i = 1 THEN s[i] ELSE f[i - 1] \o s[i]
      BY <1>1, <2>4 DEF FlattenIs
    <2>7. PICK T : T = {i \in 0..L : i = 0 \/ f[i] = g[i]}
      OBVIOUS
    <2>8. 0 \in T
      BY <1>2, <2>7
    <2>9. ASSUME NEW n \in 1..L, n - 1 \in T PROVE n \in T
      <3>1. CASE n = 1
        <4>0. 1 \in 1..L /\ 1 - 1 = 0
          BY <3>1
        <4>1. f[1] = s[1] /\ g[1] = <<>> \o s[1] /\ s[1] \in Z
          BY <1>2, <1>6, <2>6, <4>0
        <4>2. f[1] = g[1]
          BY <1>1, <4>1
        <4> QED
          BY <2>7, <3>1, <4>2
      <3>2. CASE n # 1
        <4>0. n - 1 # 0 /\ n \in 0..L
          BY <1>2, <3>2
        <4>1. f[n - 1] = g[n - 1] /\ f[n] = f[n - 1] \o s[n]
          BY <2>6, <2>7, <2>9, <3>2, <4>0
        <4>2. f[n] = g[n]
          BY <1>6, <4>1
        <4> QED
          BY <2>7, <4>0, <4>2
      <3> QED
        BY <3>1, <3>2
    <2>10. L \in T
      <3>1. \A n \in 0..L : n \in T
        BY <1>2, <2>8, <2>9, Upward
      <3>2. L \in 0..L
        BY <1>2
      <3> QED
        BY <3>1, <3>2
    <2> QED
      BY <1>1, <1>7, <1>9, <2>5, <2>7, <2>10
  <1> QED
    BY <1>8, <1>9

ChunkSet == [id : Seq(Bytes), bytes : Nat]
EndIs(f, chunks) == f = [i \in 0..Len(chunks) |-> IF i = 0 THEN 0 ELSE f[i - 1] + chunks[i].bytes]

(* Where the chunks end: after one another.                                *)
LEMMA EndsByChunk ==
    ASSUME NEW chunks \in Seq(ChunkSet)
    PROVE  /\ Staging!Ends(chunks) \in [0..Len(chunks) -> Nat] /\ Staging!Ends(chunks)[0] = 0
           /\ \A n \in 1..Len(chunks) :
                 Staging!Ends(chunks)[n] = Staging!Ends(chunks)[n - 1] + chunks[n].bytes
  <1>1. PICK L : L = Len(chunks)
    OBVIOUS
  <1>2. L \in Nat /\ \A n \in 1..L : chunks[n].bytes \in Nat
    <2>1. L \in Nat /\ \A n \in 1..L : chunks[n] \in ChunkSet
      BY <1>1
    <2>2. \A c \in ChunkSet : c.bytes \in Nat
      BY DEF ChunkSet
    <2> QED
      BY <2>1, <2>2
  <1>3. PICK step : step = [n \in 1..L |-> [v \in Nat |-> v + chunks[n].bytes]]
    OBVIOUS
  <1>4. step \in [1..L -> [Nat -> Nat]]
    <2>1. \A n \in 1..L : \A v \in Nat : v + chunks[n].bytes \in Nat
      BY <1>2
    <2> QED
      BY <1>3, <2>1
  <1>5. PICK g \in [0..L -> Nat] : IsStepwise(g, L, 0, step)
    BY <1>2, <1>4, Stepwise
  <1>6. g[0] = 0 /\ \A n \in 1..L : g[n] = g[n - 1] + chunks[n].bytes
    <2>1. ASSUME NEW n \in 1..L PROVE g[n] = g[n - 1] + chunks[n].bytes
      <3>1. g[n - 1] \in Nat
        BY <1>2, <1>5
      <3>2. g[n] = step[n][g[n - 1]]
        BY <1>5 DEF IsStepwise
      <3> QED
        BY <1>3, <3>1, <3>2
    <2> QED
      BY <1>5, <2>1 DEF IsStepwise
  <1>7. EndIs(g, chunks)
    <2>1. \A i \in 0..L : g[i] = IF i = 0 THEN 0 ELSE g[i - 1] + chunks[i].bytes
      BY <1>2, <1>6
    <2> QED
      BY <1>1, <1>5, <2>1 DEF EndIs
  <1>8. PICK f : f = CHOOSE x : EndIs(x, chunks)
    OBVIOUS
  <1>9. EndIs(f, chunks)
    BY <1>7, <1>8
  <1>10. Staging!Ends(chunks) = f
    BY <1>8, Zenon DEF Staging!Ends, EndIs
  <1>11. f[0] = 0 /\ \A n \in 1..L : f[n] = f[n - 1] + chunks[n].bytes
    <2>1. \A n \in 0..L : f[n] = IF n = 0 THEN 0 ELSE f[n - 1] + chunks[n].bytes
      BY <1>1, <1>9 DEF EndIs
    <2>2. \A n \in 1..L : n \in 0..L /\ n # 0
      BY <1>2
    <2> QED
      BY <1>2, <2>1, <2>2
  <1>12. PICK T : T = {i \in 0..L : f[i] \in Nat}
    OBVIOUS
  <1>13. \A n \in 0..L : n \in T
    <2>1. 0 \in T
      BY <1>2, <1>11, <1>12
    <2>2. ASSUME NEW n \in 1..L, n - 1 \in T PROVE n \in T
      <3>1. n \in 0..L /\ f[n - 1] \in Nat /\ chunks[n].bytes \in Nat
        BY <1>2, <1>12, <2>2
      <3>2. f[n] \in Nat
        BY <1>11, <3>1
      <3> QED
        BY <1>12, <3>1, <3>2
    <2> QED
      BY <1>2, <2>1, <2>2, Upward
  <1>14. f \in [0..L -> Nat]
    <2>1. f = [i \in 0..L |-> f[i]]
      BY <1>1, <1>9 DEF EndIs
    <2> QED
      BY <1>12, <1>13, <2>1
  <1> QED
    BY <1>1, <1>10, <1>11, <1>14


LEMMA LastPiece ==
    ASSUME NEW v \in Seq(Bytes), NEW t \in Seq(Bytes), NEW a \in Nat, NEW b \in Nat,
           Len(v) = a, Len(t) = b - a, a < b
    PROVE  SubSeq(v \o t, a + 1, b) = t
  <1>1. a + 1 \in (Len(v) + 1)..(Len(v) + Len(t)) /\ b \in (Len(v) + 1)..(Len(v) + Len(t))
    OBVIOUS
  <1>2. SubSeq(v \o t, a + 1, b) = SubSeq(t, (a + 1) - Len(v), b - Len(v))
    BY <1>1, SubSeqOfConcat2
  <1>3. (a + 1) - Len(v) = 1 /\ b - Len(v) = Len(t)
    OBVIOUS
  <1> QED
    BY <1>2, <1>3, SubSeqFull

LEMMA EarlierPiece ==
    ASSUME NEW v \in Seq(Bytes), NEW t \in Seq(Bytes), NEW a \in Nat, NEW b \in Nat, a < b, b <= Len(v)
    PROVE  SubSeq(v \o t, a + 1, b) = SubSeq(v, a + 1, b)
  <1>1. a + 1 \in 1..Len(v) /\ b \in 1..Len(v)
    OBVIOUS
  <1> QED
    BY <1>1, SubSeqOfConcat1

(* The ends of L parts that are not empty.                                 *)
IsEnds(end, L) == end \in [0..L -> Nat] /\ end[0] = 0 /\ \A n \in 1..L : end[n - 1] < end[n]

LEMMA EndsGrow ==
    ASSUME NEW L \in Nat, NEW end, IsEnds(end, L)
    PROVE  \A i \in 0..L : \A j \in 0..i : end[j] <= end[i]
  <1> USE DEF IsEnds
  <1>1. PICK T : T = {i \in 0..L : \A j \in 0..i : end[j] <= end[i]}
    OBVIOUS
  <1>2. 0 \in T
    BY <1>1
  <1>3. ASSUME NEW n \in 1..L, n - 1 \in T PROVE n \in T
    <2>1. ASSUME NEW j \in 0..n PROVE end[j] <= end[n]
      <3>1. n \in 0..L /\ n - 1 \in 0..L /\ end[n] \in Nat /\ end[n - 1] \in Nat
        OBVIOUS
      <3>2. CASE j # n
        <4>1. j \in 0..(n - 1) /\ end[j] <= end[n - 1] /\ end[j] \in Nat
          BY <1>1, <1>3, <3>2
        <4> QED
          BY <3>1, <4>1
      <3> QED
        BY <3>1, <3>2
    <2> QED
      BY <1>1, <2>1
  <1>4. \A n \in 0..L : n \in T
    BY <1>2, <1>3, Upward
  <1> QED
    BY <1>1, <1>4

(* The parts are as long as the places they have.                          *)
Fits(s, end) == \A n \in 1..Len(s) : Len(s[n]) = end[n] - end[n - 1]

LEMMA JoinedLength ==
    ASSUME NEW L \in Nat, NEW s \in Seq(Seq(Bytes)), Len(s) = L, NEW f, Joins(f, s),
           NEW end, IsEnds(end, L), Fits(s, end)
    PROVE  \A n \in 0..L : Len(f[n]) = end[n]
  <1>1. f[0] = <<>> /\ \A n \in 1..L : f[n] = f[n - 1] \o s[n] /\ f[n - 1] \in Seq(Bytes)
    <2>1. f \in [0..L -> Seq(Bytes)] /\ f[0] = <<>> /\ \A n \in 1..L : f[n] = f[n - 1] \o s[n]
      BY DEF Joins
    <2>2. \A n \in 1..L : n - 1 \in 0..L
      OBVIOUS
    <2> QED
      BY <2>1, <2>2
  <1>2. PICK T : T = {n \in 0..L : Len(f[n]) = end[n]}
    OBVIOUS
  <1>3. 0 \in T
    BY <1>1, <1>2 DEF IsEnds
  <1>4. ASSUME NEW n \in 1..L, n - 1 \in T PROVE n \in T
    <2>1. n \in 0..L /\ end[n] \in Nat /\ end[n - 1] \in Nat /\ s[n] \in Seq(Bytes)
      BY ElementOfSeq DEF IsEnds
    <2>2. Len(f[n - 1] \o s[n]) = Len(f[n - 1]) + Len(s[n])
      BY <1>1, <2>1, ConcatProperties
    <2>3. Len(f[n]) = end[n - 1] + (end[n] - end[n - 1])
      BY <1>1, <1>2, <1>4, <2>2 DEF Fits
    <2>4. Len(f[n]) = end[n]
      BY <2>1, <2>3
    <2> QED
      BY <1>2, <2>1, <2>4
  <1>5. \A n \in 0..L : n \in T
    BY <1>3, <1>4, Upward
  <1> QED
    BY <1>2, <1>5

(* Bytes that have the parts at the right places are the parts put         *)
(* together, and the other way round.                                      *)
LEMMA Pieces ==
    ASSUME NEW L \in Nat, NEW s \in Seq(Seq(Bytes)), Len(s) = L,
           NEW f, Joins(f, s),
           NEW end, IsEnds(end, L),
           NEW bytes \in Seq(Bytes), Len(bytes) = end[L]
    PROVE  (\A n \in 1..L : SubSeq(bytes, end[n - 1] + 1, end[n]) = s[n]) <=>
              bytes = f[L] /\ Fits(s, end)
  <1>0. end[0] = 0 /\ \A n \in 1..L : end[n - 1] < end[n]
    BY DEF IsEnds
  <1>1. /\ f \in [0..L -> Seq(Bytes)] /\ f[0] = <<>> /\ \A n \in 1..L : f[n] = f[n - 1] \o s[n]
    BY DEF Joins
  <1>2. \A n \in 1..L : /\ n \in 0..L /\ n - 1 \in 0..L /\ s[n] \in Seq(Bytes)
                        /\ f[n - 1] \in Seq(Bytes) /\ f[n] \in Seq(Bytes)
                        /\ end[n - 1] \in Nat /\ end[n] \in Nat
    <2>1. \A n \in 1..L : n \in 0..L /\ n - 1 \in 0..L
      OBVIOUS
    <2>2. \A n \in 0..L : f[n] \in Seq(Bytes) /\ end[n] \in Nat
      BY <1>1 DEF IsEnds
    <2>3. \A n \in 1..L : s[n] \in Seq(Bytes)
      BY ElementOfSeq
    <2> QED
      BY <2>1, <2>2, <2>3
  <1>3. L \in 0..L /\ 0 \in 0..L
    OBVIOUS
  <1>4. \A i \in 0..L : \A j \in 0..i : end[j] <= end[i]
    BY EndsGrow
  <1>5. \A n \in 1..L : end[n] <= end[L]
    BY <1>2, <1>3, <1>4
  <1>6. ASSUME \A n \in 1..L : SubSeq(bytes, end[n - 1] + 1, end[n]) = s[n]
        PROVE  bytes = f[L] /\ Fits(s, end)
    <2>1. PICK T : T = {n \in 0..L : SubSeq(bytes, 1, end[n]) = f[n]}
      OBVIOUS
    <2>2. 0 \in T
      BY <1>0, <1>1, <1>3, <2>1, SubSeqEmpty
    <2>3. ASSUME NEW n \in 1..L, n - 1 \in T PROVE n \in T
      <3>1. SubSeq(bytes, 1, end[n - 1]) = f[n - 1]
        BY <2>1, <2>3
      <3>2. /\ 1 \in 1..(Len(bytes) + 1) /\ end[n - 1] \in (1 - 1)..Len(bytes)
            /\ end[n] \in end[n - 1]..Len(bytes)
        BY <1>0, <1>2, <1>5
      <3>3. SubSeq(bytes, 1, end[n - 1]) \o SubSeq(bytes, end[n - 1] + 1, end[n]) = SubSeq(bytes, 1, end[n])
        BY <3>2, ConcatAdjacentSubSeq
      <3>4. SubSeq(bytes, 1, end[n]) = f[n]
        BY <1>1, <1>6, <3>1, <3>3
      <3> QED
        BY <1>2, <2>1, <3>4
    <2>4. \A n \in 0..L : n \in T
      BY <2>2, <2>3, Upward
    <2>5. SubSeq(bytes, 1, Len(bytes)) = f[L]
      BY <1>3, <2>1, <2>4
    <2>6. bytes = f[L]
      BY <2>5, SubSeqFull
    <2>7. ASSUME NEW n \in 1..L PROVE Len(s[n]) = end[n] - end[n - 1]
      <3>1. PICK a, b : a = end[n - 1] + 1 /\ b = end[n]
        OBVIOUS
      <3>2. a \in Int /\ b \in Int /\ a <= b /\ b - a + 1 = end[n] - end[n - 1]
        <4>1. PICK p, q : p = end[n - 1] /\ q = end[n]
          OBVIOUS
        <4>2. p \in Nat /\ q \in Nat
          BY <1>2, <4>1
        <4>3. p < q
          BY <1>0, <4>1
        <4>4. a = p + 1 /\ b = q
          BY <3>1, <4>1
        <4>5. a \in Int /\ b \in Int /\ a <= b /\ b - a + 1 = q - p
          BY <4>2, <4>3, <4>4
        <4> QED
          BY <4>1, <4>5
      <3>3. \A i \in a..b : i \in 1..Len(bytes)
        BY <1>2, <1>5, <3>1
      <3>4. \A i \in a..b : bytes[i] \in Bytes
        BY <3>3, ElementOfSeq
      <3>5. Len(SubSeq(bytes, a, b)) = b - a + 1
        BY <3>2, <3>4, SubSeqProperties
      <3> QED
        BY <1>6, <3>1, <3>2, <3>5
    <2> QED
      BY <2>6, <2>7 DEF Fits
  <1>7. ASSUME bytes = f[L], Fits(s, end)
        PROVE  \A n \in 1..L : SubSeq(bytes, end[n - 1] + 1, end[n]) = s[n]
    <2>1. \A n \in 0..L : Len(f[n]) = end[n]
      BY <1>7, JoinedLength
    <2>2. PICK T : T = {j \in 0..L : \A n \in 1..j : SubSeq(f[j], end[n - 1] + 1, end[n]) = s[n]}
      OBVIOUS
    <2>3. 0 \in T
      BY <1>3, <2>2
    <2>4. ASSUME NEW j \in 1..L, j - 1 \in T PROVE j \in T
      <3>1. /\ f[j] = f[j - 1] \o s[j] /\ Len(f[j - 1]) = end[j - 1] /\ Len(s[j]) = end[j] - end[j - 1]
            /\ f[j - 1] \in Seq(Bytes) /\ s[j] \in Seq(Bytes) /\ end[j] \in Nat /\ end[j - 1] \in Nat
            /\ end[j - 1] < end[j]
        BY <1>0, <1>1, <1>2, <1>7, <2>1 DEF Fits
      <3>2. ASSUME NEW n \in 1..j, n # j PROVE SubSeq(f[j], end[n - 1] + 1, end[n]) = s[n]
        <4>1. n \in 1..(j - 1) /\ n \in 1..L /\ n \in 0..(j - 1) /\ j - 1 \in 0..L
          BY <3>2
        <4>2. SubSeq(f[j - 1], end[n - 1] + 1, end[n]) = s[n]
          BY <2>2, <2>4, <4>1
        <4>3. end[n - 1] < end[n] /\ end[n] <= end[j - 1] /\ end[n] \in Nat /\ end[n - 1] \in Nat
          BY <1>0, <1>2, <1>4, <4>1
        <4>4. SubSeq(f[j - 1] \o s[j], end[n - 1] + 1, end[n]) = SubSeq(f[j - 1], end[n - 1] + 1, end[n])
          <5>1. PICK v, t, a, b : v = f[j - 1] /\ t = s[j] /\ a = end[n - 1] /\ b = end[n]
            OBVIOUS
          <5>2. v \in Seq(Bytes) /\ t \in Seq(Bytes) /\ a \in Nat /\ b \in Nat /\ a < b /\ b <= Len(v)
            BY <3>1, <4>3, <5>1, Zenon
          <5>3. SubSeq(v \o t, a + 1, b) = SubSeq(v, a + 1, b)
            BY <5>2, EarlierPiece, Zenon
          <5> QED
            BY <5>1, <5>3, Zenon
        <4> QED
          BY <3>1, <4>2, <4>4
      <3>3. SubSeq(f[j], end[j - 1] + 1, end[j]) = s[j]
        <4>1. PICK v, t, a, b : v = f[j - 1] /\ t = s[j] /\ a = end[j - 1] /\ b = end[j]
          OBVIOUS
        <4>2. /\ v \in Seq(Bytes) /\ t \in Seq(Bytes) /\ a \in Nat /\ b \in Nat
              /\ Len(v) = a /\ Len(t) = b - a /\ a < b
          BY <3>1, <4>1, Zenon
        <4>3. SubSeq(v \o t, a + 1, b) = t
          BY <4>2, LastPiece, Zenon
        <4> QED
          BY <3>1, <4>1, <4>3, Zenon
      <3> QED
        BY <1>2, <2>2, <3>2, <3>3
    <2>5. \A n \in 0..L : n \in T
      BY <2>3, <2>4, Upward
    <2> QED
      BY <1>3, <1>7, <2>2, <2>5
  <1> QED
    BY <1>6, <1>7


-----------------------------------------------------------------------------
(* The references of an operation.                                         *)

LEMMA PackageFacts ==
    ASSUME NEW k \in Packages
    PROVE  /\ k.object \in Seq(Bytes)
           /\ k.index \in Seq(Staging!Index)
           /\ \A i \in DOMAIN k.index : k.source[k.index[i].id] \in Staging!Delivery
           /\ Staging!IsManifest(k) =>
                 /\ Staging!Chunks(k) \in Seq(ChunkSet)
                 /\ k.manifests[k.object].size \in Nat
  <1>1. /\ k.object \in Seq(Bytes) /\ k.index \in Seq(Staging!Index)
        /\ \A o \in DOMAIN k.manifests : k.manifests[o] \in Staging!Manifest
        /\ \A i \in DOMAIN k.index : k.source[k.index[i].id] \in Staging!Delivery
    BY PayloadAssumption DEF Staging!StAssumption
  <1>2. \A m \in Staging!Manifest : m.chunks \in Seq(ChunkSet) /\ m.size \in Nat
    BY DEF Staging!Manifest, ChunkSet
  <1> QED
    BY <1>1, <1>2 DEF Staging!IsManifest, Staging!Chunks

LEMMA PartsFacts ==
    ASSUME NEW k \in Packages
    PROVE  /\ Staging!Parts(k) \in Seq(Seq(Bytes))
           /\ ~Staging!IsManifest(k) => Staging!Parts(k) = <<k.object>>
           /\ Staging!IsManifest(k) =>
                 /\ Len(Staging!Parts(k)) = Len(Staging!Chunks(k))
                 /\ \A i \in 1..Len(Staging!Chunks(k)) : Staging!Parts(k)[i] = Staging!Chunks(k)[i].id
  <1>1. CASE ~Staging!IsManifest(k)
    BY <1>1, PackageFacts DEF Staging!Parts
  <1>2. CASE Staging!IsManifest(k)
    <2>1. PICK c, L : c = Staging!Chunks(k) /\ L = Len(c)
      OBVIOUS
    <2>2. c \in Seq(ChunkSet) /\ L \in Nat /\ DOMAIN c = 1..L
      BY <1>2, <2>1, PackageFacts
    <2>3. \A i \in 1..L : c[i].id \in Seq(Bytes)
      <3>1. \A i \in 1..L : c[i] \in ChunkSet
        BY <2>1, <2>2
      <3>2. \A x \in ChunkSet : x.id \in Seq(Bytes)
        BY DEF ChunkSet
      <3> QED
        BY <3>1, <3>2
    <2>4. PICK v : v = [i \in 1..L |-> c[i].id]
      OBVIOUS
    <2>5. v \in Seq(Seq(Bytes)) /\ Len(v) = L
      BY <2>2, <2>3, <2>4
    <2>6. Staging!Parts(k) = v
      BY <1>2, <2>1, <2>2, <2>4 DEF Staging!Parts
    <2> QED
      BY <1>2, <2>1, <2>4, <2>5, <2>6
  <1> QED
    BY <1>1, <1>2

(* What the index says of an object that it lists once.                    *)
LEMMA EntryFacts ==
    ASSUME NEW k \in Packages, NEW id, Staging!IsIndexed(k, id)
    PROVE  Staging!Entry(k, id).bytes \in Nat /\ k.source[id] \in Staging!Delivery
  <1>1. Staging!Indexed(k, id) # {}
    <2>1. \A S : Staging!Cardinality(S) = Cardinality(S)
      BY Zenon DEF Staging!Cardinality, Cardinality, Staging!IsFiniteSet, IsFiniteSet
    <2>2. Cardinality(Staging!Indexed(k, id)) = 1
      BY <2>1 DEF Staging!IsIndexed
    <2>3. Cardinality({}) = 0
      BY FS_EmptySet
    <2> QED
      BY <2>2, <2>3
  <1>2. PICK i \in Staging!Indexed(k, id) : Staging!Entry(k, id) = k.index[i]
    BY <1>1 DEF Staging!Entry
  <1>3. i \in DOMAIN k.index /\ k.index[i].id = id
    BY <1>2 DEF Staging!Indexed
  <1>4. k.index[i] \in Staging!Index
    BY <1>3, PackageFacts
  <1> QED
    BY <1>2, <1>3, <1>4, PackageFacts DEF Staging!Index

(* Every part of a valid reference is listed once.                         *)
LEMMA PartsAreIndexed ==
    ASSUME NEW k \in Packages, NEW m, Staging!Validate(k, m)
    PROVE  \A i \in 1..Len(Staging!Parts(k)) : Staging!IsIndexed(k, Staging!Parts(k)[i])
  <1>1. CASE ~Staging!IsManifest(k)
    BY <1>1, PartsFacts DEF Staging!Validate
  <1>2. CASE Staging!IsManifest(k)
    <2>1. DOMAIN Staging!Chunks(k) = 1..Len(Staging!Chunks(k))
      BY <1>2, PackageFacts
    <2>2. \A i \in 1..Len(Staging!Chunks(k)) : Staging!ChunkFits(k, i)
      BY <1>2, <2>1 DEF Staging!Validate, Staging!Chunks
    <2>3. \A i \in 1..Len(Staging!Chunks(k)) : Staging!IsIndexed(k, Staging!Chunks(k)[i].id)
      BY <2>2 DEF Staging!ChunkFits, Staging!Chunks
    <2> QED
      BY <1>2, <2>3, PartsFacts
  <1> QED
    BY <1>1, <1>2


(* What a copy of a valid reference produces is what matches_bytes takes.  *)
LEMMA MatchesCopies ==
    ASSUME NEW k \in Packages, Staging!Validate(k, MaxBytes), NEW bytes \in Seq(Bytes)
    PROVE  Staging!MatchesBytes(k, bytes) <=>
              /\ bytes = Staging!FlattenSeq(Staging!Parts(k))
              /\ \A i \in DOMAIN Staging!Parts(k) :
                    Len(Staging!Parts(k)[i]) = Staging!Entry(k, Staging!Parts(k)[i]).bytes
  <1>1. PICK s, L : s = Staging!Parts(k) /\ L = Len(s)
    OBVIOUS
  <1>2. s \in Seq(Seq(Bytes)) /\ L \in Nat /\ DOMAIN s = 1..L
    BY <1>1, PartsFacts
  <1>3. PICK f : Joins(f, s) /\ Staging!FlattenSeq(s) = f[L]
    BY <1>1, <1>2, FlattenByPart
  <1>4. CASE ~Staging!IsManifest(k)
    <2>1. s = <<k.object>> /\ k.object \in Seq(Bytes)
      BY <1>1, <1>4, PartsFacts, PackageFacts
    <2>2. L = 1 /\ s[1] = k.object
      BY <1>1, <2>1
    <2>3. f[L] = k.object
      <3>1. f[0] = <<>> /\ f[1] = f[0] \o s[1]
        <4>1. f[0] = <<>> /\ \A n \in 1..L : f[n] = f[n - 1] \o s[n]
          BY <1>1, <1>3 DEF Joins
        <4>2. 1 \in 1..L /\ 1 - 1 = 0
          BY <2>2
        <4> QED
          BY <4>1, <4>2
      <3> QED
        BY <2>1, <2>2, <3>1
    <2>4. (\A i \in 1..L : Len(s[i]) = Staging!Entry(k, s[i]).bytes) <=>
             Len(k.object) = Staging!Entry(k, k.object).bytes
      BY <2>2
    <2>5. Staging!MatchesBytes(k, bytes) <=>
             Len(bytes) = Staging!Entry(k, k.object).bytes /\ bytes = k.object
      BY <1>4 DEF Staging!MatchesBytes, Staging!Size
    <2>6. Staging!MatchesBytes(k, bytes) <=>
             bytes = f[L] /\ \A i \in 1..L : Len(s[i]) = Staging!Entry(k, s[i]).bytes
      BY <2>3, <2>4, <2>5, Zenon
    <2> QED
      BY <1>1, <1>2, <1>3, <2>6, Zenon
  <1>5. CASE Staging!IsManifest(k)
    <2>1. PICK c, end : c = Staging!Chunks(k) /\ end = Staging!Ends(c)
      OBVIOUS
    <2>2. c \in Seq(ChunkSet) /\ Len(c) = L /\ DOMAIN c = 1..L /\ \A i \in 1..L : s[i] = c[i].id
      BY <1>1, <1>5, <2>1, PackageFacts, PartsFacts
    <2>3. end \in [0..L -> Nat] /\ end[0] = 0 /\ \A n \in 1..L : end[n] = end[n - 1] + c[n].bytes
      BY <2>1, <2>2, EndsByChunk
    <2>4. \A i \in 1..L : c[i].bytes \in Nat /\ 1 <= c[i].bytes /\ Staging!Entry(k, s[i]).bytes = c[i].bytes
      <3>1. \A i \in 1..L : Staging!ChunkFits(k, i)
        BY <1>5, <2>1, <2>2 DEF Staging!Validate, Staging!Chunks
      <3>2. \A i \in 1..L : c[i].bytes \in 1..ChunkBytes /\ Staging!Entry(k, c[i].id).bytes = c[i].bytes
        BY <2>1, <3>1 DEF Staging!ChunkFits, Staging!Chunks
      <3> QED
        BY <2>2, <3>2
    <2>5. \A n \in 1..L : end[n] \in Nat /\ end[n - 1] \in Nat
      <3>1. \A n \in 1..L : n \in 0..L /\ n - 1 \in 0..L
        BY <1>2
      <3> QED
        BY <2>3, <3>1
    <2>6. IsEnds(end, L)
      BY <2>3, <2>4, <2>5 DEF IsEnds
    <2>7. Fits(s, end) <=> \A i \in 1..L : Len(s[i]) = Staging!Entry(k, s[i]).bytes
      <3>1. \A i \in 1..L : end[i] - end[i - 1] = Staging!Entry(k, s[i]).bytes
        BY <2>3, <2>4, <2>5
      <3> QED
        BY <1>1, <3>1 DEF Fits
    <2>8. Staging!Size(k) = end[L]
      BY <1>5, <2>1, <2>2 DEF Staging!Size, Staging!Validate, Staging!Chunks
    <2>9. Staging!MatchesBytes(k, bytes) <=>
             /\ Len(bytes) = end[L]
             /\ \A i \in 1..L : end[i] <= Len(bytes) /\ SubSeq(bytes, end[i - 1] + 1, end[i]) = s[i]
      <3>1. Staging!MatchesBytes(k, bytes) <=>
               /\ Len(bytes) = end[L]
               /\ \A i \in 1..L : end[i] <= Len(bytes) /\ SubSeq(bytes, end[i - 1] + 1, end[i]) = c[i].id
               /\ end[L] = Len(bytes)
        BY <1>5, <2>1, <2>2, <2>8, Zenon DEF Staging!MatchesBytes
      <3> QED
        BY <2>2, <3>1
    <2>10. \A i \in 1..L : end[i] <= end[L]
      <3>1. \A i \in 1..L : L \in 0..L /\ i \in 0..L
        BY <1>2
      <3> QED
        BY <1>2, <2>6, <3>1, EndsGrow
    <2>11. CASE Len(bytes) = end[L]
      <3>1. (\A n \in 1..L : SubSeq(bytes, end[n - 1] + 1, end[n]) = s[n]) <=> bytes = f[L] /\ Fits(s, end)
        BY <1>1, <1>2, <1>3, <2>6, <2>11, Pieces
      <3>2. Staging!MatchesBytes(k, bytes) <=>
               \A n \in 1..L : SubSeq(bytes, end[n - 1] + 1, end[n]) = s[n]
        BY <2>9, <2>10, <2>11
      <3> QED
        BY <1>1, <1>2, <1>3, <2>7, <3>1, <3>2, Zenon
    <2>12. CASE Len(bytes) # end[L]
      <3>1. ~Staging!MatchesBytes(k, bytes)
        BY <2>9, <2>12
      <3>2. bytes = f[L] => ~Fits(s, end)
        <4>1. Fits(s, end) => Len(f[L]) = end[L]
          <5>1. L \in 0..L
            BY <1>2
          <5> QED
            BY <1>1, <1>2, <1>3, <2>6, <5>1, JoinedLength
        <4> QED
          BY <2>12, <4>1
      <3> QED
        BY <1>1, <1>2, <1>3, <2>7, <3>1, <3>2, Zenon
    <2> QED
      BY <2>11, <2>12
  <1> QED
    BY <1>4, <1>5


-----------------------------------------------------------------------------
(* The processes that stage.                                               *)

ProcSet ==
    [pc : {"idle", "error", "cancelled", "waiting", "create", "copy", "staged"}, next : Nat, tries : Nat,
     path : Nat, todo : Seq(Seq(Bytes)), given : Seq(Bytes), hashed : Seq(Bytes), done : Nat]
TempSet == [bytes : Seq(Bytes), owner : Procs, live : BOOLEAN]
Working(r) == r.pc \in {"copy", "staged"}

(* A copy has hashed the parts that are done and what it was given of the  *)
(* next one.                                                               *)
Underway(r, k) ==
    \E f, n :
        /\ Joins(f, Staging!Parts(k)) /\ Staging!FlattenSeq(Staging!Parts(k)) = f[Len(Staging!Parts(k))]
        /\ n \in 0..Len(Staging!Parts(k))
        /\ r.todo = SubSeq(Staging!Parts(k), n + 1, Len(Staging!Parts(k)))
        /\ r.hashed = f[n] \o r.given
        /\ r.todo = <<>> => r.given = <<>>

(* The stage of one process against the reference and the directory.       *)
ProcOK(p, r, k, fs) ==
    /\ r \in ProcSet
    /\ r.pc = "create" \/ Working(r) => Staging!Validate(k, MaxBytes) /\ Staging!Size(k) \in 1..MaxBytes
    /\ Working(r) => r.path \in DOMAIN fs /\ fs[r.path].owner = p /\ fs[r.path].bytes = r.hashed
    /\ r.pc = "copy" => Underway(r, k)
    /\ r.pc = "staged" => r.hashed = Staging!FlattenSeq(Staging!Parts(k)) /\ Len(r.hashed) = Staging!Size(k)

TempOK(n, fs, ps) ==
    /\ fs[n] \in TempSet
    /\ fs[n].live => ps[fs[n].owner].path = n /\ Working(ps[fs[n].owner])

PayloadInv ==
    /\ pkg \in Packages /\ proc \in [Procs -> ProcSet]
    /\ \A p \in Procs : ProcOK(p, proc[p], pkg, files)
    /\ \A n \in DOMAIN files : TempOK(n, files, proc)

LEMMA PayloadStart == ASSUME Staging!StInit PROVE PayloadInv
  <1>1. Staging!Idle \in ProcSet /\ Staging!Idle.pc = "idle"
    BY DEF Staging!Idle, ProcSet
  <1>2. pkg \in Packages /\ proc = [p \in Procs |-> Staging!Idle] /\ DOMAIN files = {}
    BY DEF Staging!StInit
  <1>3. \A p \in Procs : ProcOK(p, proc[p], pkg, files)
    BY <1>1, <1>2 DEF ProcOK, Working
  <1> QED
    BY <1>1, <1>2, <1>3 DEF PayloadInv

(* One process moves; the others keep their files.                         *)
LEMMA OneMoves ==
    ASSUME PayloadInv, NEW p \in Procs, NEW r, proc' = [proc EXCEPT ![p] = r], UNCHANGED pkg,
           ProcOK(p, r, pkg, files'),
           \A q \in Procs \ {p} : Working(proc[q]) =>
               proc[q].path \in DOMAIN files' /\ files'[proc[q].path].owner = files[proc[q].path].owner
                                              /\ files'[proc[q].path].bytes = files[proc[q].path].bytes,
           \A n \in DOMAIN files' :
               /\ files'[n] \in TempSet
               /\ files'[n].live =>
                     IF files'[n].owner = p THEN r.path = n /\ Working(r)
                     ELSE n \in DOMAIN files /\ files[n].live /\ files[n].owner = files'[n].owner
    PROVE  PayloadInv'
  <1>1. proc' \in [Procs -> ProcSet] /\ proc'[p] = r /\ \A q \in Procs \ {p} : proc'[q] = proc[q]
    BY DEF PayloadInv, ProcOK
  <1>2. ASSUME NEW q \in Procs PROVE ProcOK(q, proc'[q], pkg, files')
    <2>1. CASE q # p
      <3>1. ProcOK(q, proc[q], pkg, files)
        BY DEF PayloadInv
      <3>2. ProcOK(q, proc[q], pkg, files')
        BY <2>1, <3>1 DEF ProcOK
      <3> QED
        BY <1>1, <2>1, <3>2
    <2> QED
      BY <1>1, <2>1
  <1>3. ASSUME NEW n \in DOMAIN files' PROVE TempOK(n, files', proc')
    <2>1. ASSUME files'[n].live PROVE proc'[files'[n].owner].path = n /\ Working(proc'[files'[n].owner])
      <3>1. CASE files'[n].owner = p
        BY <1>1, <2>1, <3>1
      <3>2. CASE files'[n].owner # p
        <4>1. files'[n].owner \in Procs \ {p}
          BY <3>2 DEF TempSet
        <4>2. n \in DOMAIN files /\ files[n].live /\ files[n].owner = files'[n].owner
          BY <2>1, <3>2
        <4>3. TempOK(n, files, proc)
          BY <4>2 DEF PayloadInv
        <4> QED
          BY <1>1, <4>1, <4>2, <4>3 DEF TempOK
      <3> QED
        BY <3>1, <3>2
    <2> QED
      BY <2>1 DEF TempOK
  <1> QED
    BY <1>1, <1>2, <1>3 DEF PayloadInv


(* What the record of a process becomes when one field is set.             *)
SameBut(y, x, field) ==
    /\ y \in ProcSet /\ y.pc = x.pc /\ y.path = x.path
    /\ field # "todo" => y.todo = x.todo
    /\ field # "given" => y.given = x.given
    /\ field # "hashed" => y.hashed = x.hashed

LEMMA FieldSet ==
    ASSUME NEW x \in ProcSet
    PROVE  /\ \A v \in Nat : SameBut([x EXCEPT !.next = v], x, "next")
           /\ \A v \in Nat : SameBut([x EXCEPT !.tries = v], x, "tries")
           /\ \A v \in Nat : SameBut([x EXCEPT !.done = v], x, "done")
           /\ \A v \in Seq(Seq(Bytes)) : SameBut([x EXCEPT !.todo = v], x, "todo")
           /\ \A v \in Seq(Bytes) : SameBut([x EXCEPT !.given = v], x, "given")
           /\ \A v \in Seq(Bytes) : SameBut([x EXCEPT !.hashed = v], x, "hashed")
  <1>1. ASSUME NEW v \in Nat PROVE SameBut([x EXCEPT !.next = v], x, "next")
    <2>1. [x EXCEPT !.next = v] \in ProcSet
      BY DEF ProcSet
    <2> QED
      BY <2>1 DEF SameBut, ProcSet
  <1>2. ASSUME NEW v \in Nat PROVE SameBut([x EXCEPT !.tries = v], x, "tries")
    <2>1. [x EXCEPT !.tries = v] \in ProcSet
      BY DEF ProcSet
    <2> QED
      BY <2>1 DEF SameBut, ProcSet
  <1>3. ASSUME NEW v \in Nat PROVE SameBut([x EXCEPT !.done = v], x, "done")
    <2>1. [x EXCEPT !.done = v] \in ProcSet
      BY DEF ProcSet
    <2> QED
      BY <2>1 DEF SameBut, ProcSet
  <1>4. ASSUME NEW v \in Seq(Seq(Bytes)) PROVE SameBut([x EXCEPT !.todo = v], x, "todo")
    <2>1. [x EXCEPT !.todo = v] \in ProcSet
      BY DEF ProcSet
    <2> QED
      BY <2>1 DEF SameBut, ProcSet
  <1>5. ASSUME NEW v \in Seq(Bytes) PROVE SameBut([x EXCEPT !.given = v], x, "given")
    <2>1. [x EXCEPT !.given = v] \in ProcSet
      BY DEF ProcSet
    <2> QED
      BY <2>1 DEF SameBut, ProcSet
  <1>6. ASSUME NEW v \in Seq(Bytes) PROVE SameBut([x EXCEPT !.hashed = v], x, "hashed")
    <2>1. [x EXCEPT !.hashed = v] \in ProcSet
      BY DEF ProcSet
    <2> QED
      BY <2>1 DEF SameBut, ProcSet
  <1> QED
    BY <1>1, <1>2, <1>3, <1>4, <1>5, <1>6

LEMMA FilesStay ==
    ASSUME PayloadInv, NEW p \in Procs, NEW r, proc' = [proc EXCEPT ![p] = r], UNCHANGED <<pkg, files>>,
           ProcOK(p, r, pkg, files), Working(proc[p]) => Working(r) /\ r.path = proc[p].path
    PROVE  PayloadInv'
  <1>1. \A q \in Procs \ {p} : Working(proc[q]) => proc[q].path \in DOMAIN files
    BY DEF PayloadInv, ProcOK
  <1>2. \A n \in DOMAIN files :
           /\ files[n] \in TempSet
           /\ files[n].live /\ files[n].owner = p => r.path = n /\ Working(r)
    BY DEF PayloadInv, TempOK
  <1>3. files' = files /\ pkg' = pkg
    OBVIOUS
  <1>4. ProcOK(p, r, pkg, files')
    BY <1>3, Zenon
  <1>5. \A q \in Procs \ {p} : Working(proc[q]) =>
           proc[q].path \in DOMAIN files' /\ files'[proc[q].path].owner = files[proc[q].path].owner
                                          /\ files'[proc[q].path].bytes = files[proc[q].path].bytes
    BY <1>1, <1>3, Zenon
  <1>6. \A n \in DOMAIN files' :
           /\ files'[n] \in TempSet
           /\ files'[n].live =>
                 IF files'[n].owner = p THEN r.path = n /\ Working(r)
                 ELSE n \in DOMAIN files /\ files[n].live /\ files[n].owner = files'[n].owner
    BY <1>2, <1>3
  <1> QED
    BY <1>4, <1>5, <1>6, OneMoves

(* The process is done with its file.                                      *)
LEMMA FileLeaves ==
    ASSUME PayloadInv, NEW p \in Procs, NEW r \in ProcSet, proc' = [proc EXCEPT ![p] = r], UNCHANGED pkg,
           Working(proc[p]), r.pc \in {"idle", "error", "cancelled"}, files' = Staging!Without(proc[p].path)
    PROVE  PayloadInv'
  <1>1. PICK name : name = proc[p].path
    OBVIOUS
  <1>2. /\ DOMAIN files' = DOMAIN files \ {name}
        /\ \A n \in DOMAIN files : n # name => files'[n] = files[n]
    BY <1>1 DEF Staging!Without
  <1>3. name \in DOMAIN files /\ files[name].owner = p
    BY <1>1 DEF PayloadInv, ProcOK
  <1>4. ASSUME NEW q \in Procs \ {p}, Working(proc[q])
        PROVE  proc[q].path \in DOMAIN files /\ proc[q].path # name
    <2>1. proc[q].path \in DOMAIN files /\ files[proc[q].path].owner = q
      BY <1>4 DEF PayloadInv, ProcOK
    <2> QED
      BY <1>3, <2>1
  <1>5. ASSUME NEW n \in DOMAIN files'
        PROVE  /\ files'[n] \in TempSet
               /\ files'[n].live => files'[n].owner # p
    <2>1. n \in DOMAIN files /\ n # name /\ files'[n] = files[n] /\ TempOK(n, files, proc)
      BY <1>2 DEF PayloadInv
    <2> QED
      BY <1>1, <2>1 DEF TempOK
  <1>6. ProcOK(p, r, pkg, files')
    BY DEF ProcOK, Working
  <1>7. \A q \in Procs \ {p} : Working(proc[q]) =>
           proc[q].path \in DOMAIN files' /\ files'[proc[q].path].owner = files[proc[q].path].owner
                                          /\ files'[proc[q].path].bytes = files[proc[q].path].bytes
    BY <1>2, <1>4
  <1>8. \A n \in DOMAIN files' :
           /\ files'[n] \in TempSet
           /\ files'[n].live =>
                 IF files'[n].owner = p THEN r.path = n /\ Working(r)
                 ELSE n \in DOMAIN files /\ files[n].live /\ files[n].owner = files'[n].owner
    BY <1>2, <1>5
  <1> QED
    BY <1>6, <1>7, <1>8, OneMoves

LEMMA GiveUpInv ==
    ASSUME PayloadInv, NEW p \in Procs, NEW result \in {"error", "cancelled"},
           Working(proc[p]), Staging!GiveUp(p, result)
    PROVE  PayloadInv'
  <1>1. PICK r : r = Staging!Cleared(p, result)
    OBVIOUS
  <1>2. proc[p] \in ProcSet
    BY DEF PayloadInv
  <1>3. r \in ProcSet /\ r.pc = result
    BY <1>1, <1>2 DEF Staging!Cleared, ProcSet
  <1>4. files' = Staging!Without(proc[p].path) /\ proc' = [proc EXCEPT ![p] = r] /\ UNCHANGED pkg
    BY <1>1 DEF Staging!GiveUp, Staging!Goes
  <1> QED
    BY <1>3, <1>4, FileLeaves

LEMMA StageInv == ASSUME PayloadInv, NEW p \in Procs, Staging!Stage(p) PROVE PayloadInv'
  <1>1. proc[p] \in ProcSet /\ ~Working(proc[p])
    BY DEF PayloadInv, Staging!Stage, Working
  <1>2. UNCHANGED <<pkg, files>>
    BY DEF Staging!Stage
  <1>3. ASSUME NEW c \in {"error", "waiting"}, Staging!Goes(p, Staging!At(p, c)) PROVE PayloadInv'
    <2>1. PICK r : r = Staging!At(p, c)
      OBVIOUS
    <2>2. r \in ProcSet /\ r.pc = c
      BY <1>1, <2>1 DEF Staging!At, ProcSet
    <2>3. ProcOK(p, r, pkg, files)
      BY <2>2 DEF ProcOK, Working
    <2>4. proc' = [proc EXCEPT ![p] = r]
      BY <1>3, <2>1 DEF Staging!Goes
    <2> QED
      BY <1>1, <1>2, <2>3, <2>4, FilesStay
  <1>4. CASE /\ Staging!Validate(pkg, MaxBytes) /\ Staging!Size(pkg) # 0
             /\ Staging!Goes(p, [Staging!At(p, "create") EXCEPT !.tries = 0])
    <2>1. PICK r : r = [Staging!At(p, "create") EXCEPT !.tries = 0]
      OBVIOUS
    <2>2. r \in ProcSet /\ r.pc = "create"
      BY <1>1, <2>1 DEF Staging!At, ProcSet
    <2>3. Staging!Size(pkg) \in 1..MaxBytes
      <3>1. pkg \in Packages /\ MaxBytes \in Nat
        BY PayloadAssumption DEF PayloadInv, Staging!StAssumption
      <3>2. Staging!Size(pkg) \in Nat /\ Staging!Size(pkg) <= MaxBytes
        BY <1>4, <3>1, PackageFacts, EntryFacts DEF Staging!Size, Staging!Validate
      <3> QED
        BY <1>4, <3>1, <3>2
    <2>4. ProcOK(p, r, pkg, files)
      BY <1>4, <2>2, <2>3 DEF ProcOK, Working
    <2>5. proc' = [proc EXCEPT ![p] = r]
      BY <1>4, <2>1 DEF Staging!Goes
    <2> QED
      BY <1>1, <1>2, <2>4, <2>5, FilesStay
  <1> QED
    BY <1>3, <1>4 DEF Staging!Stage

LEMMA CreateInv == ASSUME PayloadInv, NEW p \in Procs, Staging!CreateTemp(p) PROVE PayloadInv'
  <1>1. proc[p] \in ProcSet /\ proc[p].pc = "create" /\ ~Working(proc[p]) /\ UNCHANGED pkg
    BY DEF PayloadInv, Staging!CreateTemp, Staging!Is, Working
  <1>2. pkg \in Packages /\ Staging!Validate(pkg, MaxBytes) /\ Staging!Size(pkg) \in 1..MaxBytes
    BY <1>1 DEF PayloadInv, ProcOK
  <1>3. PICK name : name = proc[p].next
    OBVIOUS
  <1>4. CASE Staging!Goes(p, Staging!At(p, "error")) /\ UNCHANGED files
    <2>1. PICK r : r = Staging!At(p, "error")
      OBVIOUS
    <2>2. r \in ProcSet /\ r.pc = "error"
      BY <1>1, <2>1 DEF Staging!At, ProcSet
    <2>3. ProcOK(p, r, pkg, files)
      BY <2>2 DEF ProcOK, Working
    <2>4. proc' = [proc EXCEPT ![p] = r]
      BY <1>4, <2>1 DEF Staging!Goes
    <2> QED
      BY <1>1, <1>4, <2>3, <2>4, FilesStay
  <1>5. CASE Staging!Goes(p, [proc[p] EXCEPT !.next = name + 1, !.tries = @ + 1]) /\ UNCHANGED files
    <2>1. PICK r, x : /\ r = [proc[p] EXCEPT !.next = name + 1, !.tries = @ + 1]
                      /\ x = [proc[p] EXCEPT !.next = name + 1]
      OBVIOUS
    <2>2. r \in ProcSet /\ r.pc = "create"
      <3>1. name + 1 \in Nat /\ proc[p].tries + 1 \in Nat
        BY <1>1, <1>3 DEF ProcSet
      <3>2. SameBut(x, proc[p], "next")
        BY <1>1, <2>1, <3>1, FieldSet, Zenon
      <3>3. SameBut(r, x, "tries")
        <4>1. r = [x EXCEPT !.tries = proc[p].tries + 1] /\ x \in ProcSet
          BY <2>1, <3>2 DEF SameBut
        <4> QED
          BY <3>1, <4>1, FieldSet, Zenon
      <3> QED
        BY <1>1, <3>2, <3>3 DEF SameBut
    <2>3. ProcOK(p, r, pkg, files)
      BY <1>2, <2>2 DEF ProcOK, Working
    <2>4. proc' = [proc EXCEPT ![p] = r]
      BY <1>5, <2>1 DEF Staging!Goes
    <2> QED
      BY <1>1, <1>5, <2>3, <2>4, FilesStay
  (* The name is free: nobody else holds it.                               *)
  <1>6. CASE /\ name \notin DOMAIN files /\ files' = Staging!With(p, name)
             /\ Staging!Goes(p, Staging!Copying(p, name, name + 1))
    <2>1. PICK r, s : r = Staging!Copying(p, name, name + 1) /\ s = Staging!Parts(pkg)
      OBVIOUS
    <2>2. s \in Seq(Seq(Bytes)) /\ <<>> \in Seq(Bytes)
      BY <1>2, <2>1, PartsFacts
    <2>3. /\ r \in ProcSet /\ r.pc = "copy" /\ r.path = name
          /\ r.todo = s /\ r.given = <<>> /\ r.hashed = <<>>
      BY <1>1, <1>3, <2>1, <2>2 DEF Staging!Copying, ProcSet
    <2>4. /\ DOMAIN files' = DOMAIN files \cup {name}
          /\ files'[name] = [bytes |-> <<>>, owner |-> p, live |-> TRUE]
          /\ \A n \in DOMAIN files : files'[n] = files[n]
      BY <1>6 DEF Staging!With
    <2>5. Underway(r, pkg)
      <3>1. PICK f : Joins(f, s) /\ Staging!FlattenSeq(s) = f[Len(s)]
        BY <2>2, FlattenByPart
      <3>2. f[0] = <<>> /\ <<>> \o <<>> = <<>>
        BY <3>1, <2>2 DEF Joins
      <3>3. SubSeq(s, 0 + 1, Len(s)) = s /\ 0 \in 0..Len(s)
        BY <2>2, SubSeqFull
      <3> QED
        BY <2>1, <2>3, <3>1, <3>2, <3>3 DEF Underway
    <2>6. ProcOK(p, r, pkg, files')
      BY <1>2, <2>3, <2>4, <2>5 DEF ProcOK, Working
    <2>7. proc' = [proc EXCEPT ![p] = r]
      BY <1>6, <2>1 DEF Staging!Goes
    <2>8. ASSUME NEW n \in DOMAIN files'
          PROVE  /\ files'[n] \in TempSet
                 /\ files'[n].live =>
                       IF files'[n].owner = p THEN r.path = n /\ Working(r)
                       ELSE n \in DOMAIN files /\ files[n].live /\ files[n].owner = files'[n].owner
      <3>1. CASE n = name
        <4>1. [bytes |-> <<>>, owner |-> p, live |-> TRUE] \in TempSet
          BY <2>2 DEF TempSet
        <4>2. r.path = n /\ Working(r) /\ files'[n].owner = p
          BY <2>3, <2>4, <3>1 DEF Working
        <4> QED
          BY <2>4, <3>1, <4>1, <4>2
      <3>2. CASE n # name
        <4>1. n \in DOMAIN files /\ files'[n] = files[n] /\ TempOK(n, files, proc)
          BY <2>4, <3>2 DEF PayloadInv
        <4> QED
          BY <1>1, <4>1 DEF TempOK
      <3> QED
        BY <3>1, <3>2
    <2>9. \A q \in Procs \ {p} : Working(proc[q]) =>
             proc[q].path \in DOMAIN files' /\ files'[proc[q].path].owner = files[proc[q].path].owner
                                            /\ files'[proc[q].path].bytes = files[proc[q].path].bytes
      BY <2>4 DEF PayloadInv, ProcOK
    <2> QED
      BY <1>1, <2>6, <2>7, <2>8, <2>9, OneMoves
  <1> QED
    BY <1>3, <1>4, <1>5, <1>6 DEF Staging!CreateTemp


(* Where a copy is: after n parts, of which the next is the head of todo.  *)
CopyAt(p, f, n, s) ==
    /\ s = Staging!Parts(pkg) /\ s \in Seq(Seq(Bytes)) /\ n \in 0..Len(s) /\ Len(s) \in Nat
    /\ Joins(f, s) /\ Staging!FlattenSeq(s) = f[Len(s)]
    /\ proc[p].todo = SubSeq(s, n + 1, Len(s))
    /\ proc[p].hashed = f[n] \o proc[p].given
    /\ proc[p].todo = <<>> => proc[p].given = <<>> /\ n = Len(s)
    /\ proc[p].todo # <<>> =>
          /\ n + 1 \in 1..Len(s) /\ Head(proc[p].todo) = s[n + 1]
          /\ Tail(proc[p].todo) = SubSeq(s, (n + 1) + 1, Len(s))
          /\ Staging!Source(p) \in Staging!Delivery

LEMMA CopyFacts ==
    ASSUME PayloadInv, NEW p \in Procs, proc[p].pc = "copy"
    PROVE  \E f, n, s : CopyAt(p, f, n, s)
  <1>1. pkg \in Packages /\ Staging!Validate(pkg, MaxBytes) /\ Underway(proc[p], pkg)
    BY DEF PayloadInv, ProcOK, Working
  <1>2. PICK s : s = Staging!Parts(pkg)
    OBVIOUS
  <1>3. PICK f, n : /\ Joins(f, s) /\ Staging!FlattenSeq(s) = f[Len(s)] /\ n \in 0..Len(s)
                    /\ proc[p].todo = SubSeq(s, n + 1, Len(s))
                    /\ proc[p].hashed = f[n] \o proc[p].given
                    /\ proc[p].todo = <<>> => proc[p].given = <<>>
    BY <1>1, <1>2 DEF Underway
  <1>4. s \in Seq(Seq(Bytes)) /\ Len(s) \in Nat
    BY <1>1, <1>2, PartsFacts
  <1>5. CASE n = Len(s)
    <2>1. SubSeq(s, n + 1, Len(s)) = <<>>
      BY <1>4, <1>5, SubSeqEmpty
    <2> QED
      BY <1>2, <1>3, <1>4, <1>5, <2>1 DEF CopyAt
  <1>6. CASE n # Len(s)
    <2>1. n + 1 \in 1..Len(s) /\ Len(s) \in (n + 1)..Len(s)
      BY <1>3, <1>4, <1>6
    <2>2. /\ Head(proc[p].todo) = s[n + 1]
          /\ Tail(proc[p].todo) = SubSeq(s, (n + 1) + 1, Len(s))
      BY <1>3, <1>4, <2>1, HeadTailOfSubSeq
    <2>3. proc[p].todo # <<>>
      <3>1. \A i \in (n + 1)..Len(s) : s[i] \in Seq(Bytes)
        BY <1>3, <1>4
      <3>2. Len(proc[p].todo) = IF n + 1 <= Len(s) THEN Len(s) - (n + 1) + 1 ELSE 0
        <4>1. n + 1 \in Int /\ Len(s) \in Int
          BY <2>1
        <4> QED
          BY <1>3, <3>1, <4>1, SubSeqProperties
      <3>3. Len(proc[p].todo) # 0
        BY <1>3, <1>4, <2>1, <3>2
      <3> QED
        BY <3>3
    <2>4. Staging!Source(p) \in Staging!Delivery
      <3>1. Staging!IsIndexed(pkg, s[n + 1])
        BY <1>1, <1>2, <2>1, PartsAreIndexed
      <3> QED
        BY <1>1, <2>2, <3>1, EntryFacts DEF Staging!Source
    <2> QED
      BY <1>2, <1>3, <1>4, <2>1, <2>2, <2>3, <2>4 DEF CopyAt
  <1> QED
    BY <1>5, <1>6

LEMMA FinishObjectInv == ASSUME PayloadInv, NEW p \in Procs, Staging!FinishObject(p) PROVE PayloadInv'
  <1>1. proc[p].pc = "copy" /\ proc[p].todo # <<>> /\ proc[p] \in ProcSet /\ Working(proc[p])
    BY DEF PayloadInv, Staging!FinishObject, Staging!Is, Working
  <1>2. CASE Staging!GiveUp(p, "error")
    BY <1>1, <1>2, GiveUpInv
  (* What was given is the part itself.                                    *)
  <1>3. CASE /\ Staging!ObjectVerified(p)
             /\ Staging!Goes(p, [proc[p] EXCEPT !.todo = Tail(@), !.given = <<>>])
             /\ UNCHANGED <<pkg, files>>
    <2>0. PICK f, n, s : CopyAt(p, f, n, s)
      BY <1>1, CopyFacts
    <2>1. /\ s = Staging!Parts(pkg) /\ s \in Seq(Seq(Bytes)) /\ n \in 0..Len(s) /\ Len(s) \in Nat
          /\ Joins(f, s) /\ Staging!FlattenSeq(s) = f[Len(s)]
          /\ proc[p].hashed = f[n] \o proc[p].given
          /\ n + 1 \in 1..Len(s) /\ Head(proc[p].todo) = s[n + 1]
          /\ Tail(proc[p].todo) = SubSeq(s, (n + 1) + 1, Len(s))
      BY <1>1, <2>0, Zenon DEF CopyAt
    <2>2. PICK r, x : /\ r = [proc[p] EXCEPT !.todo = Tail(@), !.given = <<>>]
                      /\ x = [proc[p] EXCEPT !.todo = Tail(proc[p].todo)]
      OBVIOUS
    <2>3. Tail(proc[p].todo) \in Seq(Seq(Bytes)) /\ <<>> \in Seq(Bytes)
      BY <1>1, HeadTailProperties DEF ProcSet
    <2>4. SameBut(x, proc[p], "todo") /\ x.todo = Tail(proc[p].todo)
      <3>1. x.todo = Tail(proc[p].todo)
        BY <1>1, <2>2 DEF ProcSet
      <3> QED
        BY <1>1, <2>2, <2>3, <3>1, FieldSet, Zenon
    <2>5. SameBut(r, x, "given") /\ r.given = <<>>
      <3>1. r = [x EXCEPT !.given = <<>>] /\ x \in ProcSet
        BY <2>2, <2>4 DEF SameBut
      <3>2. r.given = <<>>
        BY <3>1 DEF ProcSet
      <3> QED
        BY <2>3, <3>1, <3>2, FieldSet, Zenon
    <2>6. /\ r \in ProcSet /\ r.pc = "copy" /\ r.path = proc[p].path
          /\ r.todo = Tail(proc[p].todo) /\ r.hashed = proc[p].hashed
      BY <1>1, <2>4, <2>5 DEF SameBut
    <2>7. Underway(r, pkg)
      <3>1. proc[p].given = s[n + 1]
        BY <1>3, <2>1 DEF Staging!ObjectVerified
      <3>2. f[n + 1] = f[n] \o s[n + 1] /\ f[n + 1] \in Seq(Bytes)
        <4>1. /\ f \in [0..Len(s) -> Seq(Bytes)]
              /\ \A i \in 1..Len(s) : f[i] = f[i - 1] \o s[i]
          BY <2>1 DEF Joins
        <4>2. (n + 1) - 1 = n /\ n + 1 \in 0..Len(s)
          BY <2>1
        <4> QED
          BY <2>1, <4>1, <4>2
      <3>3. r.hashed = f[n + 1] \o r.given
        <4>1. f[n + 1] \o <<>> = f[n + 1]
          BY <3>2, ConcatEmptySeq
        <4> QED
          BY <2>1, <2>5, <2>6, <3>1, <3>2, <4>1
      <3>4. n + 1 \in 0..Len(s) /\ r.todo = SubSeq(s, (n + 1) + 1, Len(s))
        <4>1. n + 1 \in 0..Len(s)
          BY <2>1
        <4> QED
          BY <2>1, <2>6, <4>1, Zenon
      <3> QED
        BY <2>1, <2>5, <3>3, <3>4, Zenon DEF Underway
    <2>8. ProcOK(p, r, pkg, files)
      <3>1. ProcOK(p, proc[p], pkg, files)
        BY DEF PayloadInv
      <3> QED
        BY <1>1, <2>6, <2>7, <3>1 DEF ProcOK, Working
    <2>9. proc' = [proc EXCEPT ![p] = r] /\ Working(r) /\ r.path = proc[p].path
      BY <1>3, <2>2, <2>6 DEF Staging!Goes, Working
    <2> QED
      BY <1>3, <2>8, <2>9, FilesStay
  <1> QED
    BY <1>2, <1>3 DEF Staging!FinishObject

LEMMA FinishStageInv == ASSUME PayloadInv, NEW p \in Procs, Staging!FinishStage(p) PROVE PayloadInv'
  <1>1. proc[p].pc = "copy" /\ proc[p].todo = <<>> /\ proc[p] \in ProcSet /\ Working(proc[p])
    BY DEF PayloadInv, Staging!FinishStage, Staging!Is, Working
  <1>2. CASE Staging!GiveUp(p, "error")
    BY <1>1, <1>2, GiveUpInv
  <1>3. CASE /\ Len(proc[p].hashed) = Staging!Size(pkg)
             /\ Staging!Goes(p, Staging!At(p, "staged")) /\ UNCHANGED <<pkg, files>>
    <2>1. PICK r : r = Staging!At(p, "staged")
      OBVIOUS
    <2>2. /\ r \in ProcSet /\ r.pc = "staged" /\ r.path = proc[p].path /\ r.hashed = proc[p].hashed
      BY <1>1, <2>1 DEF Staging!At, ProcSet
    <2>3. proc[p].hashed = Staging!FlattenSeq(Staging!Parts(pkg))
      <3>0. PICK f, n, s : CopyAt(p, f, n, s)
        BY <1>1, CopyFacts
      <3>1. /\ s = Staging!Parts(pkg) /\ s \in Seq(Seq(Bytes)) /\ n = Len(s) /\ Len(s) \in Nat
            /\ Joins(f, s) /\ Staging!FlattenSeq(s) = f[Len(s)]
            /\ proc[p].hashed = f[n] \o <<>>
        BY <1>1, <3>0, Zenon DEF CopyAt
      <3>2. f[n] \in Seq(Bytes)
        BY <3>1 DEF Joins
      <3> QED
        BY <3>1, <3>2, ConcatEmptySeq
    <2>4. ProcOK(p, r, pkg, files)
      <3>1. ProcOK(p, proc[p], pkg, files)
        BY DEF PayloadInv
      <3> QED
        BY <1>1, <1>3, <2>2, <2>3, <3>1 DEF ProcOK, Working
    <2>5. proc' = [proc EXCEPT ![p] = r] /\ Working(r)
      BY <1>3, <2>1, <2>2 DEF Staging!Goes, Working
    <2> QED
      BY <1>3, <2>2, <2>4, <2>5, FilesStay
  <1> QED
    BY <1>2, <1>3 DEF Staging!FinishStage

LEMMA DropInv == ASSUME PayloadInv, NEW p \in Procs, Staging!DropStaged(p) PROVE PayloadInv'
  <1>1. proc[p].pc = "staged" /\ proc[p] \in ProcSet /\ Working(proc[p]) /\ UNCHANGED pkg
    BY DEF PayloadInv, Staging!DropStaged, Staging!Is, Working
  <1>2. PICK r, x : /\ r = [Staging!Cleared(p, "idle") EXCEPT !.done = @ + 1]
                    /\ x = Staging!Cleared(p, "idle")
    OBVIOUS
  <1>3. x \in ProcSet /\ x.pc = "idle" /\ x.done + 1 \in Nat
    BY <1>1, <1>2 DEF Staging!Cleared, ProcSet
  <1>4. SameBut(r, x, "done")
    BY <1>2, <1>3, FieldSet, Zenon
  <1>5. proc' = [proc EXCEPT ![p] = r] /\ files' = Staging!Without(proc[p].path)
    BY <1>2 DEF Staging!DropStaged, Staging!Goes
  <1>6. r \in ProcSet /\ r.pc \in {"idle", "error", "cancelled"}
    BY <1>3, <1>4 DEF SameBut
  <1> QED
    BY <1>1, <1>5, <1>6, FileLeaves


(* A byte appended to the last of two pieces is appended to their join.    *)
LEMMA AppendAfter ==
    \A s, t \in Seq(Bytes) : \A e \in Bytes : Append(s \o t, e) = s \o Append(t, e)
  <1> SUFFICES ASSUME NEW s \in Seq(Bytes), NEW t \in Seq(Bytes), NEW e \in Bytes
               PROVE  Append(s \o t, e) = s \o Append(t, e)
    OBVIOUS
  <1>1. s \o t \in Seq(Bytes)
    BY ConcatProperties
  <1>2. <<e>> \in Seq(Bytes)
    OBVIOUS
  <1>3. Append(s \o t, e) = (s \o t) \o <<e>>
    BY <1>1, AppendIsConcat
  <1>4. Append(t, e) = t \o <<e>>
    BY AppendIsConcat
  <1>5. (s \o t) \o <<e>> = s \o (t \o <<e>>)
    BY <1>2, ConcatAssociative
  <1> QED
    BY <1>3, <1>4, <1>5, Zenon

LEMMA WriteByteInv == ASSUME PayloadInv, NEW p \in Procs, Staging!WriteByte(p) PROVE PayloadInv'
  <1>1. proc[p].pc = "copy" /\ proc[p].todo # <<>> /\ proc[p] \in ProcSet /\ Working(proc[p])
    BY DEF PayloadInv, Staging!WriteByte, Staging!Is, Working
  <1>2. PICK byte, v : v = Staging!Source(p).bytes /\ byte = v[Len(proc[p].given) + 1]
    OBVIOUS
  <1>3. CASE Staging!GiveUp(p, "error")
    BY <1>1, <1>3, GiveUpInv
  <1>4. CASE /\ files' = [files EXCEPT ![proc[p].path].bytes = Append(@, byte)]
             /\ Staging!Goes(p, [proc[p] EXCEPT !.given = Append(@, byte), !.hashed = Append(@, byte)])
             /\ UNCHANGED pkg
    <2>1. PICK f, n, s : CopyAt(p, f, n, s)
      BY <1>1, CopyFacts
    <2>2. proc[p].given \in Seq(Bytes) /\ proc[p].hashed \in Seq(Bytes)
      BY <1>1 DEF ProcSet
    <2>3. byte \in Bytes
      <3>1. Staging!Source(p) \in Staging!Delivery
        BY <1>1, <2>1, Zenon DEF CopyAt
      <3>2. v \in Seq(Bytes)
        BY <1>2, <3>1 DEF Staging!Delivery
      <3>3. Len(proc[p].given) < Len(v)
        BY <1>2 DEF Staging!WriteByte
      <3>4. Len(proc[p].given) + 1 \in 1..Len(v)
        BY <2>2, <3>2, <3>3
      <3> QED
        BY <1>2, <3>2, <3>4, ElementOfSeq
    <2>4. PICK g, w : g = Append(proc[p].given, byte) /\ w = Append(proc[p].hashed, byte)
      OBVIOUS
    <2>5. g \in Seq(Bytes) /\ w \in Seq(Bytes)
      BY <2>2, <2>3, <2>4
    <2>6. PICK r, x : /\ r = [proc[p] EXCEPT !.given = Append(@, byte), !.hashed = Append(@, byte)]
                      /\ x = [proc[p] EXCEPT !.given = g]
      OBVIOUS
    <2>7. SameBut(x, proc[p], "given") /\ x.given = g
      <3>1. x.given = g
        BY <1>1, <2>6 DEF ProcSet
      <3> QED
        BY <1>1, <2>5, <2>6, <3>1, FieldSet, Zenon
    <2>8. SameBut(r, x, "hashed") /\ r.hashed = w
      <3>1. r = [x EXCEPT !.hashed = w] /\ x \in ProcSet
        BY <2>4, <2>6, <2>7 DEF SameBut
      <3>2. r.hashed = w
        BY <3>1 DEF ProcSet
      <3> QED
        BY <2>5, <3>1, <3>2, FieldSet, Zenon
    <2>9. /\ r \in ProcSet /\ r.pc = "copy" /\ r.path = proc[p].path
          /\ r.todo = proc[p].todo /\ r.given = g /\ r.hashed = w
      BY <1>1, <2>7, <2>8 DEF SameBut
    <2>10. Underway(r, pkg)
      <3>1. w = f[n] \o g
        <4>1. f[n] \in Seq(Bytes) /\ proc[p].hashed = f[n] \o proc[p].given
          BY <2>1 DEF CopyAt, Joins
        <4>2. PICK a, b : a = f[n] /\ b = proc[p].given
          OBVIOUS
        <4>3. a \in Seq(Bytes) /\ b \in Seq(Bytes)
          BY <2>2, <4>1, <4>2
        <4>4. Append(a \o b, byte) = a \o Append(b, byte)
          BY <2>3, <4>3, AppendAfter, Zenon
        <4> QED
          BY <2>4, <4>1, <4>2, <4>4
      <3>2. r.todo # <<>> /\ r.hashed = f[n] \o r.given
        BY <1>1, <2>9, <3>1
      <3> QED
        BY <2>1, <2>9, <3>2, Zenon DEF Underway, CopyAt
    <2>11. ProcOK(p, proc[p], pkg, files) /\ files[proc[p].path] \in TempSet
      BY <1>1 DEF PayloadInv, ProcOK, TempOK
    <2>12. proc[p].path \in DOMAIN files /\ files[proc[p].path].owner = p /\ files[proc[p].path].bytes = proc[p].hashed
      BY <1>1, <2>11 DEF ProcOK
    <2>13. PICK old : old = files[proc[p].path]
      OBVIOUS
    <2>14. /\ DOMAIN files' = DOMAIN files
           /\ files'[proc[p].path] = [old EXCEPT !.bytes = w]
           /\ \A i \in DOMAIN files : i # proc[p].path => files'[i] = files[i]
      BY <1>4, <2>4, <2>12, <2>13
    <2>15. /\ files'[proc[p].path] \in TempSet /\ files'[proc[p].path].owner = p
           /\ files'[proc[p].path].bytes = w
      BY <2>5, <2>11, <2>12, <2>13, <2>14 DEF TempSet
    <2>16. ProcOK(p, r, pkg, files')
      BY <1>1, <2>9, <2>10, <2>11, <2>12, <2>14, <2>15 DEF ProcOK, Working
    <2>17. ASSUME NEW q \in Procs \ {p}, Working(proc[q])
           PROVE  proc[q].path \in DOMAIN files' /\ files'[proc[q].path] = files[proc[q].path]
      <3>1. proc[q].path \in DOMAIN files /\ files[proc[q].path].owner = q
        BY <2>17 DEF PayloadInv, ProcOK
      <3> QED
        BY <2>12, <2>14, <3>1
    <2>18. ASSUME NEW i \in DOMAIN files'
           PROVE  /\ files'[i] \in TempSet
                  /\ files'[i].live =>
                        IF files'[i].owner = p THEN r.path = i /\ Working(r)
                        ELSE i \in DOMAIN files /\ files[i].live /\ files[i].owner = files'[i].owner
      <3>1. CASE i = proc[p].path
        BY <2>9, <2>15, <3>1 DEF Working
      <3>2. CASE i # proc[p].path
        <4>1. i \in DOMAIN files /\ files'[i] = files[i] /\ TempOK(i, files, proc)
          BY <2>14, <3>2 DEF PayloadInv
        <4> QED
          BY <3>2, <4>1 DEF TempOK
      <3> QED
        BY <3>1, <3>2
    <2>19. proc' = [proc EXCEPT ![p] = r] /\ UNCHANGED pkg
      BY <1>4, <2>6 DEF Staging!Goes
    <2>20. \A q \in Procs \ {p} : Working(proc[q]) =>
              proc[q].path \in DOMAIN files' /\ files'[proc[q].path].owner = files[proc[q].path].owner
                                             /\ files'[proc[q].path].bytes = files[proc[q].path].bytes
      BY <2>17, Zenon
    <2> QED
      BY <2>16, <2>18, <2>19, <2>20, OneMoves, Zenon
  <1> QED
    BY <1>2, <1>3, <1>4 DEF Staging!WriteByte

(* A killed process leaves its file, which belongs to nobody any more.     *)
LEMMA KilledInv == ASSUME PayloadInv, NEW p \in Procs, Staging!Crash(p) PROVE PayloadInv'
  <1>1. proc[p] \in ProcSet /\ UNCHANGED pkg
    BY DEF PayloadInv, Staging!Crash
  <1>2. PICK r : r = [Staging!Idle EXCEPT !.done = proc[p].done]
    OBVIOUS
  <1>3. r \in ProcSet /\ r.pc = "idle" /\ proc' = [proc EXCEPT ![p] = r]
    <2>1. Staging!Idle \in ProcSet /\ Staging!Idle.pc = "idle" /\ proc[p].done \in Nat
      BY <1>1 DEF Staging!Idle, ProcSet
    <2>2. SameBut(r, Staging!Idle, "done")
      BY <1>2, <2>1, FieldSet, Zenon
    <2>3. proc' = [proc EXCEPT ![p] = r]
      BY <1>2 DEF Staging!Crash, Staging!Goes
    <2> QED
      BY <2>1, <2>2, <2>3 DEF SameBut
  <1>4. /\ DOMAIN files' = DOMAIN files
        /\ \A n \in DOMAIN files :
              files'[n] = IF n = proc[p].path THEN [files[n] EXCEPT !.live = FALSE] ELSE files[n]
    BY DEF Staging!Crash
  <1>5. ASSUME NEW n \in DOMAIN files
        PROVE  /\ files'[n] \in TempSet /\ files'[n].owner = files[n].owner /\ files'[n].bytes = files[n].bytes
               /\ files'[n].live => files[n].live /\ n # proc[p].path
    <2>1. PICK x : x = files[n]
      OBVIOUS
    <2>2. x \in TempSet
      BY <2>1 DEF PayloadInv, TempOK
    <2>3. CASE n = proc[p].path
      <3>1. files'[n] = [x EXCEPT !.live = FALSE]
        BY <1>4, <2>1, <2>3
      <3> QED
        BY <2>1, <2>2, <3>1 DEF TempSet
    <2>4. CASE n # proc[p].path
      BY <1>4, <2>1, <2>2, <2>4
    <2> QED
      BY <2>3, <2>4
  <1>6. \A n \in DOMAIN files : files[n].live /\ files[n].owner = p => n = proc[p].path
    BY DEF PayloadInv, TempOK
  <1>7. ProcOK(p, r, pkg, files')
    BY <1>3 DEF ProcOK, Working
  <1>8. \A q \in Procs \ {p} : Working(proc[q]) =>
           proc[q].path \in DOMAIN files' /\ files'[proc[q].path].owner = files[proc[q].path].owner
                                          /\ files'[proc[q].path].bytes = files[proc[q].path].bytes
    BY <1>4, <1>5 DEF PayloadInv, ProcOK
  <1>9. \A n \in DOMAIN files' :
           /\ files'[n] \in TempSet
           /\ files'[n].live =>
                 IF files'[n].owner = p THEN r.path = n /\ Working(r)
                 ELSE n \in DOMAIN files /\ files[n].live /\ files[n].owner = files'[n].owner
    BY <1>4, <1>5, <1>6
  <1> QED
    BY <1>1, <1>3, <1>7, <1>8, <1>9, OneMoves

LEMMA PayloadStepInv == ASSUME PayloadInv, Staging!StNext PROVE PayloadInv'
  <1>1. PICK p \in Procs : Staging!ProcNext(p)
    BY DEF Staging!StNext
  <1>2. CASE Staging!CancelCopy(p)
    BY <1>2, GiveUpInv DEF Staging!CancelCopy, Staging!Is, Working
  <1>3. CASE Staging!FailCopy(p)
    BY <1>3, GiveUpInv DEF Staging!FailCopy, Staging!Is, Working
  <1> QED
    BY <1>1, <1>2, <1>3, StageInv, CreateInv, WriteByteInv, FinishObjectInv, FinishStageInv, DropInv, KilledInv
    DEF Staging!ProcNext, Staging!StStep

(* What the stages of the processes imply.                                 *)
LEMMA PayloadSafe ==
    ASSUME PayloadInv
    PROVE  Staging!StagedIsWhole /\ Staging!FilesAreInUse /\ Staging!MatchesIsEquality
  <1>1. Staging!StagedIsWhole
    BY DEF PayloadInv, ProcOK, Working, Staging!StagedIsWhole, Staging!Is
  <1>2. Staging!FilesAreInUse
    BY DEF PayloadInv, TempOK, Working, Staging!FilesAreInUse
  <1>3. Staging!MatchesIsEquality
    <2>1. pkg \in Packages
      BY DEF PayloadInv
    <2>2. ASSUME NEW bytes \in Staging!BoundedSeq(Bytes, MaxBytes) PROVE bytes \in Seq(Bytes)
      <3>1. PICK m \in 0..MaxBytes : bytes \in [1..m -> Bytes]
        BY <2>2 DEF Staging!BoundedSeq, Staging!SeqOf
      <3>2. m \in Nat
        BY <3>1, PayloadAssumption DEF Staging!StAssumption
      <3> QED
        BY <3>1, <3>2
    <2> QED
      BY <2>1, <2>2, MatchesCopies DEF Staging!MatchesIsEquality
  <1> QED
    BY <1>1, <1>2, <1>3

(* Whatever the source delivers, whoever competes for the names and        *)
(* whenever a process is stopped or killed, a staged archive is whole,     *)
(* only a killed process leaves a file, the comparison with a target takes *)
(* what a copy would produce, and what counts as installed is installed.   *)
THEOREM PayloadsAreAlwaysExact == MCSpec => []PayloadsAreExact
  <1> DEFINE Inv == (part = "staging" => PayloadInv) /\ (part = "install" => InstallInv)
  <1>1. MCInit => Inv
    BY PayloadStart, InstallStart DEF MCInit
  <1>2. Inv /\ [MCNext]_mcVars => Inv'
    <2> SUFFICES ASSUME Inv, [MCNext]_mcVars PROVE Inv'
      OBVIOUS
    <2>1. part' = part
      BY DEF MCNext, WriteStep, SubsystemStep, EnvironmentStep, McpStep, StagingStep, InstallStep,
             BrowserStep, mcVars
    <2>2. ASSUME part = "staging" PROVE PayloadInv'
      <3>1. Staging!StNext \/ UNCHANGED Staging!stVars
        BY <2>2 DEF MCNext, WriteStep, SubsystemStep, EnvironmentStep, McpStep, StagingStep, InstallStep,
                    BrowserStep, mcVars, Staging!stVars
      <3>2. ASSUME UNCHANGED Staging!stVars PROVE PayloadInv'
        BY <2>2, <3>2 DEF PayloadInv, Staging!stVars
      <3> QED
        BY <2>2, <3>1, <3>2, PayloadStepInv
    <2>3. ASSUME part = "install" PROVE InstallInv'
      <3>1. Install!PiNext \/ UNCHANGED Install!piVars
        BY <2>3 DEF MCNext, WriteStep, SubsystemStep, EnvironmentStep, McpStep, StagingStep, InstallStep,
                    BrowserStep, mcVars, Install!piVars
      <3>2. ASSUME UNCHANGED Install!piVars PROVE InstallInv'
        BY <2>3, <3>2 DEF InstallInv, Install!ExactIsInstalled, Install!IsInstalled, Install!piVars
      <3> QED
        BY <2>3, <3>1, <3>2, InstallStepInv
    <2> QED
      BY <2>1, <2>2, <2>3
  <1>3. Inv => PayloadsAreExact
    BY PayloadSafe DEF InstallInv, PayloadsAreExact
  <1> QED
    BY <1>1, <1>2, <1>3, PTL DEF MCSpec
=============================================================================
