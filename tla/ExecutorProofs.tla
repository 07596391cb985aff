--------------------------- MODULE ExecutorProofs ---------------------------
(***************************************************************************)
(* Safety of the journal for any client, and of the executor for every     *)
(* plan and any number of processes.                                       *)
(*                                                                         *)
(* The argument.  Every step of every process is one transaction of the    *)
(* journal or none (StepIsJournalled), so verified rows never change and   *)
(* an approval is never withdrawn.  What a process concludes from its      *)
(* snapshot is therefore conclusive as long as it only relies on rows that *)
(* are Done there.  Sound says of one process's record what it relies on;  *)
(* it mentions the journal through Done rows and APPROVED only, so a step  *)
(* of any other process, user or command preserves it (SoundIsStable).     *)
(***************************************************************************)
EXTENDS Executor, FiniteSets, FiniteSetTheorems, TLAPS

-----------------------------------------------------------------------------
(* The journal's promises to any client, for every plan, every number of   *)
(* attempts and every sequence of transactions.  The type invariant is     *)
(* inductive by itself; StartedIsApproved is inductive together with it.   *)


(* create_run_record stores well-formed rows.                              *)
LEMMA JournalInitType == JournalInit => JournalTypeOK
  <1> SUFFICES ASSUME JournalInit PROVE JournalTypeOK
    OBVIOUS
  <1>1. runStatus \in RunStatus /\ approval \in ApprovalState
    BY DEF JournalInit, RunStatus, ApprovalState
  <1>2. op \in [Ops -> JournalOperation]
    BY MaxAttemptAssumption DEF JournalInit, JournalOperation, OperationState
  <1>3. DOMAIN action \subseteq ActionId /\ action \in [DOMAIN action -> ActionState]
    BY ManualAssumption, MaxAttemptAssumption DEF JournalInit, ActionId, ActionState
  <1> QED
    BY <1>1, <1>2, <1>3 DEF JournalTypeOK

(* A started, restarted or settled row is a well-formed row.               *)
LEMMA TransitionedType ==
    ASSUME JournalTypeOK, NEW o \in Ops, NEW s \in OperationState,
           NEW proof \in BOOLEAN, CanTransition(o, s)
    PROVE  Transitioned(o, s, proof) \in JournalOperation
  <1>1. op[o] \in JournalOperation
    BY DEF JournalTypeOK
  <1>2. CASE op[o].state \in Done
    BY <1>1, <1>2 DEF Transitioned
  <1>3. CASE op[o].state \notin Done /\ s = "RUNNING"
    <2>1. op[o].attempt \in 0..MaxAttempt /\ op[o].attempt < MaxAttempt
      BY <1>1, <1>3 DEF CanTransition, JournalOperation
    <2>2. op[o].attempt + 1 \in 0..MaxAttempt
      BY <2>1, MaxAttemptAssumption
    <2> QED
      BY <1>3, <2>2 DEF Transitioned, JournalOperation
  <1>4. CASE op[o].state \notin Done /\ s # "RUNNING"
    BY <1>1, <1>4 DEF Transitioned, JournalOperation
  <1> QED
    BY <1>2, <1>3, <1>4

(* Every transaction, and every step that is none, keeps the rows          *)
(* well-formed; the attempt counter in particular stays within its width.  *)
LEMMA JournalStepType ==
    ASSUME JournalTypeOK, [JournalNext]_journalVars PROVE JournalTypeOK'
  <1>1. ASSUME NEW s \in ApprovalState, SetApproval(s) PROVE JournalTypeOK'
    BY <1>1 DEF SetApproval, JournalTypeOK
  <1>2. ASSUME NEW s \in RunStatus, SetRunStatus(s) PROVE JournalTypeOK'
    BY <1>2 DEF SetRunStatus, JournalTypeOK
  <1>3. ASSUME NEW o \in Ops, NEW s \in OperationState, NEW proof \in BOOLEAN,
               TransitionOperation(o, s, proof)
        PROVE  JournalTypeOK'
    <2>1. Transitioned(o, s, proof) \in JournalOperation
      BY <1>3, TransitionedType DEF TransitionOperation
    <2>2. op' \in [Ops -> JournalOperation]
      BY <1>3, <2>1 DEF TransitionOperation, JournalTypeOK
    <2>3. runStatus' \in RunStatus
      BY <1>3 DEF TransitionOperation, JournalTypeOK, RunStatus
    <2> QED
      BY <1>3, <2>2, <2>3 DEF TransitionOperation, JournalTypeOK
  <1>4. ASSUME NEW a \in ActionId, AddManualAction(a) PROVE JournalTypeOK'
    <2>1. /\ DOMAIN action' = DOMAIN action \cup {a}
          /\ action' \in [DOMAIN action' -> ActionState]
      BY <1>4 DEF AddManualAction, JournalTypeOK, ActionState
    <2> QED
      BY <1>4, <2>1 DEF AddManualAction, JournalTypeOK
  <1>5. ASSUME NEW a \in ActionId, NEW s \in ActionState, SetManualActionState(a, s)
        PROVE  JournalTypeOK'
    <2>1. /\ DOMAIN action' = DOMAIN action
          /\ action' \in [DOMAIN action' -> ActionState]
      BY <1>5 DEF SetManualActionState, JournalTypeOK
    <2> QED
      BY <1>5, <2>1 DEF SetManualActionState, JournalTypeOK
  <1>6. ASSUME RecoverRunningOperations PROVE JournalTypeOK'
    <2>1. \A o \in Ops : [op[o] EXCEPT !.state = "INTERRUPTED"] \in JournalOperation
      BY DEF JournalTypeOK, JournalOperation, OperationState
    <2>2. op' \in [Ops -> JournalOperation]
      BY <1>6, <2>1 DEF RecoverRunningOperations, JournalTypeOK
    <2>3. runStatus' \in RunStatus
      BY <1>6 DEF RecoverRunningOperations, JournalTypeOK, RunStatus
    <2> QED
      BY <1>6, <2>2, <2>3 DEF RecoverRunningOperations, JournalTypeOK
  <1>7. CASE UNCHANGED journalVars
    BY <1>7 DEF journalVars, JournalTypeOK
  <1> QED
    BY <1>1, <1>2, <1>3, <1>4, <1>5, <1>6, <1>7 DEF JournalNext

(* No transaction touches a verified row, and APPROVED is for ever: the    *)
(* two facts every client's reasoning over stale data rests on.            *)
LEMMA JournalStepFinal ==
    ASSUME JournalTypeOK, [JournalNext]_journalVars
    PROVE  /\ \A o \in Ops : op[o].state \in Done => op'[o] = op[o]
           /\ approval = "APPROVED" => approval' = "APPROVED"
  <1>1. ASSUME NEW s \in ApprovalState, SetApproval(s)
        PROVE  /\ op' = op
               /\ approval = "APPROVED" => approval' = "APPROVED"
    BY <1>1 DEF SetApproval, ValidApprovalTransition
  <1>2. ASSUME NEW o \in Ops, NEW s \in OperationState, NEW proof \in BOOLEAN,
               TransitionOperation(o, s, proof)
        PROVE  /\ \A q \in Ops : op[q].state \in Done => op'[q] = op[q]
               /\ approval' = approval
    BY <1>2 DEF TransitionOperation, Transitioned, JournalTypeOK
  <1>3. ASSUME RecoverRunningOperations
        PROVE  /\ \A q \in Ops : op[q].state \in Done => op'[q] = op[q]
               /\ approval' = approval
    BY <1>3 DEF RecoverRunningOperations, Done
  <1>4. ASSUME \/ \E s \in RunStatus : SetRunStatus(s)
               \/ \E a \in ActionId : AddManualAction(a)
               \/ \E a \in ActionId, s \in ActionState : SetManualActionState(a, s)
               \/ UNCHANGED journalVars
        PROVE  op' = op /\ approval' = approval
    BY <1>4 DEF SetRunStatus, AddManualAction, SetManualActionState, journalVars
  <1> QED
    BY <1>1, <1>2, <1>3, <1>4 DEF JournalNext

-----------------------------------------------------------------------------
(* The journal's rows are well-formed under any client: in particular an   *)
(* attempt number never exceeds its width (checked_add in                  *)
(* transition_operation_record).                                           *)
THEOREM JournalTypeCorrect == JournalSpec => []JournalTypeOK
  <1>1. JournalTypeOK /\ [JournalNext]_journalVars => JournalTypeOK'
    BY JournalStepType
  <1> QED
    BY <1>1, JournalInitType, PTL DEF JournalSpec

(* No client can start an operation, or have the run RUNNING, without the  *)
(* user's approval (set_run_status_record, transition_operation_record),   *)
(* nor withdraw the approval afterwards (valid_approval_transition).       *)
THEOREM StartedIsAlwaysApproved == JournalSpec => []StartedIsApproved
  <1>1. JournalInit => StartedIsApproved
    BY DEF JournalInit, StartedIsApproved
  <1>2. ASSUME JournalTypeOK, StartedIsApproved, [JournalNext]_journalVars
        PROVE  StartedIsApproved'
    <2>1. ASSUME NEW s \in ApprovalState, SetApproval(s) PROVE StartedIsApproved'
      <3>1. approval = "APPROVED" => approval' = "APPROVED"
        BY <1>2, JournalStepFinal
      <3> QED
        BY <1>2, <2>1, <3>1 DEF SetApproval, StartedIsApproved
    <2>2. ASSUME NEW s \in RunStatus, SetRunStatus(s) PROVE StartedIsApproved'
      BY <1>2, <2>2 DEF SetRunStatus, StartedIsApproved
    <2>3. ASSUME NEW o \in Ops, NEW s \in OperationState, NEW proof \in BOOLEAN,
                 TransitionOperation(o, s, proof)
          PROVE  StartedIsApproved'
      <3>1. ASSUME NEW q \in Ops, op'[q].attempt > 0 \/ op'[q].state = "RUNNING"
            PROVE  approval = "APPROVED"
        <4>1. CASE q # o \/ op[o].state \in Done
          <5>1. op'[q] = op[q]
            BY <2>3, <4>1, <1>2 DEF TransitionOperation, Transitioned, JournalTypeOK
          <5> QED
            BY <1>2, <3>1, <5>1 DEF StartedIsApproved
        <4>2. CASE q = o /\ op[o].state \notin Done /\ s = "RUNNING"
          BY <2>3, <4>2 DEF TransitionOperation, CanTransition
        <4>3. CASE q = o /\ op[o].state \notin Done /\ s # "RUNNING"
          <5>1. op'[q] = [state |-> s, attempt |-> op[q].attempt, proof |-> proof]
            BY <2>3, <4>3, <1>2 DEF TransitionOperation, Transitioned, JournalTypeOK
          <5>2. op'[q].attempt = op[q].attempt /\ op'[q].state = s
            BY <5>1
          <5> QED
            BY <1>2, <3>1, <4>3, <5>2 DEF StartedIsApproved
        <4> QED
          BY <4>1, <4>2, <4>3
      <3>2. runStatus' = "RUNNING" => approval = "APPROVED"
        BY <1>2, <2>3 DEF TransitionOperation, CanTransition, StartedIsApproved
      <3> QED
        BY <2>3, <3>1, <3>2 DEF TransitionOperation, StartedIsApproved
    <2>4. ASSUME RecoverRunningOperations PROVE StartedIsApproved'
      <3>1. \A q \in Ops : /\ op'[q].attempt = op[q].attempt
                           /\ op'[q].state # "RUNNING"
        BY <1>2, <2>4 DEF RecoverRunningOperations, JournalTypeOK, JournalOperation
      <3> QED
        BY <1>2, <2>4, <3>1 DEF RecoverRunningOperations, StartedIsApproved
    <2>5. ASSUME \/ \E a \in ActionId : AddManualAction(a)
                 \/ \E a \in ActionId, s \in ActionState : SetManualActionState(a, s)
                 \/ UNCHANGED journalVars
          PROVE  StartedIsApproved'
      BY <1>2, <2>5
         DEF AddManualAction, SetManualActionState, journalVars, StartedIsApproved
    <2> QED
      BY <1>2, <2>1, <2>2, <2>3, <2>4, <2>5 DEF JournalNext
  <1> QED
    BY <1>1, <1>2, JournalTypeCorrect, PTL DEF JournalSpec

(* A verified row is never written again, its evidence included, whoever   *)
(* asks (transition_operation_record, recover_running_operations).         *)
THEOREM VerifiedRowsAreFinal == JournalSpec => DoneIsFinal
  <1>1. JournalTypeOK /\ [JournalNext]_journalVars
          => [\A o \in Ops : op[o].state \in Done => op'[o] = op[o]]_journalVars
    BY JournalStepFinal
  <1> QED
    BY <1>1, JournalTypeCorrect, PTL DEF JournalSpec, DoneIsFinal

-----------------------------------------------------------------------------
(* The inductive invariant.                                                *)

(* The prerequisites of o are verified in rows.                            *)
Warranted(o, rows) == \A q \in Prereq[o] : rows[q].state \in Done

(* rows hold the evidence that a Verify operation o needs.                 *)
Evidence(o, rows) ==
    /\ \A r \in Relevant[o] : rows[r].state \in Done
    /\ \E r \in Relevant[o] : rows[r].state \in Done /\ rows[r].proof

(* What was read as verified is still in the journal as it was read.       *)
SnapshotSound(r, rows) ==
    \A o \in Ops : /\ r.snap[o].state \in Done => rows[o] = r.snap[o]
                   /\ r.snap[o].state = "WAITING_FOR_USER" => Warranted(o, rows)

(* A process in the loop works for an approved run and has passed over an  *)
(* unverified operation only if it remembers that someone is waited for.   *)
ProgressSound(r, a, rows) ==
    r.pc \notin {"down", "idle", "validate"} =>
        /\ a = "APPROVED"
        /\ r.waiting = TRUE \/ \A i \in 1..(r.idx - 1) : rows[OpSeq[i]].state \in Done

PositionSound(r, rows) ==
    /\ r.pc = "validate" => r.idx = 1
    /\ r.pc \notin {"down", "idle", "validate", "loop"} => r.idx <= Len(OpSeq)
    /\ r.pc \in {"complete", "ready", "probe", "mark", "run", "queue"}
          => Warranted(OpSeq[r.idx], rows)

(* The write a process is about to make is warranted.                      *)
WriteSound(r, rows) ==
    /\ r.out.then \notin {"COMPLETED", "RUNNING"}
    /\ r.pc = "status" => r.out.then # "NONE"
    /\ r.pc \in {"queue", "record"} =>
         /\ r.out.state # "RUNNING"
         /\ r.out.then = "NONE" => r.out.state \in Done \cup {"WAITING_FOR_USER"}
         /\ r.out.state \in Done \cup {"WAITING_FOR_USER"}
              => Warranted(OpSeq[r.idx], rows)
         /\ (/\ r.out.state = "COMPLETED" /\ OpSeq[r.idx] \in Verify
             /\ Relevant[OpSeq[r.idx]] # {})
              => Evidence(OpSeq[r.idx], rows)

Sound(r, a, rows) ==
    /\ SnapshotSound(r, rows)
    /\ ProgressSound(r, a, rows)
    /\ PositionSound(r, rows)
    /\ WriteSound(r, rows)

WaitingIsWarranted ==
    \A o \in Ops : op[o].state = "WAITING_FOR_USER" => Warranted(o, op)

ExecutorInv ==
    /\ ExecutorTypeOK
    /\ StartedAfterPrerequisites
    /\ WaitingIsWarranted
    /\ VerifiedOnEvidence
    /\ CompletedMeansDone
    /\ \A p \in Procs : Sound(ex[p], approval, op)

-----------------------------------------------------------------------------
(* Facts about plans and rows.                                             *)

(* Plan positions name operations, and prerequisites and relevant          *)
(* operations of an operation are operations.                              *)
LEMMA PlanFacts ==
    /\ \A i \in 1..Len(OpSeq) : OpSeq[i] \in Ops
    /\ \A o \in Ops : Prereq[o] \subseteq Ops /\ Relevant[o] \subseteq Ops
    /\ Len(OpSeq) \in Nat
  BY PlanAssumption DEF PlanAssumption

(* Nothing is started in a run that nobody waits on: the records of a      *)
(* process outside the loop rely on nothing.                               *)
LEMMA AtSound ==
    ASSUME NEW label \in {"down", "idle", "validate"}, NEW a, NEW rows
    PROVE  At(label) \in Process /\ Sound(At(label), a, rows)
  <1>1. At(label) \in Process
    <2>1. NoRows \in [Ops -> JournalOperation]
      BY MaxAttemptAssumption DEF NoRows, JournalOperation, OperationState
    <2>2. NoOutcome \in Outcome
      BY DEF NoOutcome, Outcome, OperationState
    <2>3. label \in Labels /\ 1 \in 1..(Len(OpSeq) + 1)
      BY PlanFacts DEF Labels
    <2> QED
      BY <2>1, <2>2, <2>3 DEF At, Process
  <1>2. /\ At(label).pc = label /\ At(label).snap = NoRows
        /\ At(label).out = NoOutcome /\ At(label).idx = 1
    BY DEF At
  <1>3. SnapshotSound(At(label), rows)
    <2>1. \A o \in Ops : NoRows[o].state = "PENDING"
      BY DEF NoRows
    <2> QED
      BY <1>2, <2>1 DEF SnapshotSound, Done
  <1>4. ProgressSound(At(label), a, rows) /\ PositionSound(At(label), rows)
    BY <1>2 DEF ProgressSound, PositionSound
  <1>5. WriteSound(At(label), rows)
    BY <1>2 DEF WriteSound, NoOutcome
  <1> QED
    BY <1>1, <1>3, <1>4, <1>5 DEF Sound

(* rows2 may follow rows: verified rows are kept, and so is an approval.   *)
Follows(a, rows, a2, rows2) ==
    /\ \A o \in Ops : rows[o].state \in Done => rows2[o] = rows[o]
    /\ a = "APPROVED" => a2 = "APPROVED"

(* Prerequisites and evidence that hold in some rows hold in all later     *)
(* ones.                                                                   *)
LEMMA WarrantedIsStable ==
    ASSUME NEW a, NEW rows, NEW a2, NEW rows2, Follows(a, rows, a2, rows2),
           NEW o \in Ops
    PROVE  /\ Warranted(o, rows) => Warranted(o, rows2)
           /\ Evidence(o, rows) => Evidence(o, rows2)
  BY PlanFacts DEF Follows, Warranted, Evidence

(* A record stays sound when anybody else moves: it relies on verified     *)
(* rows and on the approval only, and both are for ever.                   *)
LEMMA SoundIsStable ==
    ASSUME NEW a, NEW rows, NEW a2, NEW rows2, Follows(a, rows, a2, rows2),
           NEW r \in Process, Sound(r, a, rows)
    PROVE  Sound(r, a2, rows2)
  <1>1. SnapshotSound(r, rows2)
    BY WarrantedIsStable DEF Sound, SnapshotSound, Follows
  <1>2. r.idx \in 1..(Len(OpSeq) + 1)
    BY DEF Process
  <1>3. ProgressSound(r, a2, rows2)
    BY <1>2, PlanFacts DEF Sound, ProgressSound, Follows
  <1>4. r.idx <= Len(OpSeq) => OpSeq[r.idx] \in Ops
    BY <1>2, PlanFacts
  <1>5. PositionSound(r, rows2)
    BY <1>4, WarrantedIsStable DEF Sound, PositionSound
  <1>6. WriteSound(r, rows2)
    BY <1>4, WarrantedIsStable DEF Sound, WriteSound, PositionSound
  <1> QED
    BY <1>1, <1>3, <1>5, <1>6 DEF Sound

-----------------------------------------------------------------------------
(* The ways a process's record changes, for any approval a and rows.       *)

InLoop(r) == r.pc \notin {"down", "idle", "validate"}

(* A cancellation request changes nothing a record relies on.              *)
LEMMA CancelKeepsSound ==
    ASSUME NEW a, NEW rows, NEW r \in Process, Sound(r, a, rows)
    PROVE  LET n == [r EXCEPT !.cancel = TRUE]
           IN  n \in Process /\ Sound(n, a, rows)
  <1> DEFINE n == [r EXCEPT !.cancel = TRUE]
  <1>1. n \in Process
    BY DEF Process
  <1>2. /\ n.pc = r.pc /\ n.idx = r.idx /\ n.snap = r.snap
        /\ n.waiting = r.waiting /\ n.out = r.out
    BY DEF Process
  <1> HIDE DEF n
  <1>3. Sound(n, a, rows)
    BY <1>2 DEF Sound, SnapshotSound, ProgressSound, PositionSound, WriteSound
  <1> QED
    BY <1>1, <1>3 DEF n

(* Going on with an operation needs its prerequisites.                     *)
LEMMA GotoKeepsSound ==
    ASSUME NEW a, NEW rows, NEW r \in Process, Sound(r, a, rows), InLoop(r),
           r.idx <= Len(OpSeq), Warranted(OpSeq[r.idx], rows),
           NEW label \in {"complete", "ready", "probe", "mark", "run"}
    PROVE  LET n == [r EXCEPT !.pc = label]
           IN  n \in Process /\ Sound(n, a, rows)
  <1> DEFINE n == [r EXCEPT !.pc = label]
  <1>1. n \in Process
    BY DEF Process, Labels
  <1>2. /\ n.pc = label /\ n.idx = r.idx /\ n.snap = r.snap
        /\ n.waiting = r.waiting /\ n.out = r.out
    BY DEF Process
  <1> HIDE DEF n
  <1>3. Sound(n, a, rows)
    BY <1>2 DEF Sound, SnapshotSound, ProgressSound, PositionSound, WriteSound, InLoop
  <1> QED
    BY <1>1, <1>3 DEF n

(* Preparing a write is sound when the write is warranted.                 *)
LEMMA WriteKeepsSound ==
    ASSUME NEW a, NEW rows, NEW r \in Process, Sound(r, a, rows), InLoop(r),
           r.idx <= Len(OpSeq),
           NEW label \in {"queue", "record", "status"},
           NEW state \in OperationState \ {"RUNNING"}, NEW proof \in BOOLEAN,
           NEW then \in (RunStatus \cup {"NONE"}) \ {"COMPLETED", "RUNNING"},
           label = "status" => then # "NONE",
           label = "queue" => Warranted(OpSeq[r.idx], rows),
           then = "NONE" => state \in Done \cup {"WAITING_FOR_USER"},
           state \in Done \cup {"WAITING_FOR_USER"} => Warranted(OpSeq[r.idx], rows),
           (/\ state = "COMPLETED" /\ OpSeq[r.idx] \in Verify
            /\ Relevant[OpSeq[r.idx]] # {}) => Evidence(OpSeq[r.idx], rows)
    PROVE  LET n == [r EXCEPT !.pc = label,
                              !.out = [state |-> state, proof |-> proof, then |-> then]]
           IN  n \in Process /\ Sound(n, a, rows)
  <1> DEFINE o == [state |-> state, proof |-> proof, then |-> then]
             n == [r EXCEPT !.pc = label, !.out = o]
  <1>1. o \in Outcome /\ o.state = state /\ o.then = then
    BY DEF Outcome
  <1> HIDE DEF o
  <1>2. n \in Process
    BY <1>1 DEF Process, Labels
  <1>3. /\ n.pc = label /\ n.idx = r.idx /\ n.snap = r.snap
        /\ n.waiting = r.waiting /\ n.out = o
    BY DEF Process
  <1> HIDE DEF n
  <1>4. Sound(n, a, rows)
    BY <1>1, <1>3
       DEF Sound, SnapshotSound, ProgressSound, PositionSound, WriteSound, InLoop
  <1> QED
    BY <1>2, <1>4 DEF n, o

(* Leaving an operation behind is sound when it is verified or the process *)
(* remembers that it waits.                                                *)
LEMMA AdvanceKeepsSound ==
    ASSUME NEW a, NEW rows, NEW r \in Process, Sound(r, a, rows), InLoop(r),
           r.idx <= Len(OpSeq), NEW w \in BOOLEAN,
           w = TRUE \/ rows[OpSeq[r.idx]].state \in Done
    PROVE  LET n == [r EXCEPT !.pc = "loop", !.idx = @ + 1, !.out = NoOutcome,
                              !.waiting = @ \/ w]
           IN  n \in Process /\ Sound(n, a, rows)
  <1> DEFINE n == [r EXCEPT !.pc = "loop", !.idx = @ + 1, !.out = NoOutcome,
                            !.waiting = @ \/ w]
  <1>1. NoOutcome \in Outcome /\ NoOutcome.then = "NONE"
    BY DEF NoOutcome, Outcome, OperationState
  <1>2. r.idx + 1 \in 1..(Len(OpSeq) + 1) /\ (r.waiting \/ w) \in BOOLEAN
    BY PlanFacts DEF Process
  <1>3. n \in Process
    BY <1>1, <1>2 DEF Process, Labels
  <1>4. /\ n.pc = "loop" /\ n.idx = r.idx + 1 /\ n.snap = r.snap
        /\ n.out = NoOutcome
    BY DEF Process
  <1>5. n.waiting = (r.waiting \/ w)
    BY DEF Process
  <1>6. (r.waiting = TRUE \/ w = TRUE) => n.waiting = TRUE
    BY <1>5 DEF Process
  <1> HIDE DEF n
  <1>7. SnapshotSound(n, rows) /\ PositionSound(n, rows)
    BY <1>4 DEF Sound, SnapshotSound, PositionSound
  <1>8. ProgressSound(n, a, rows)
    BY <1>4, <1>6, PlanFacts DEF Sound, ProgressSound, InLoop, Process
  <1>9. WriteSound(n, rows)
    BY <1>1, <1>4 DEF WriteSound
  <1> QED
    BY <1>3, <1>7, <1>8, <1>9 DEF Sound, n

(* states.insert of a row that is in the journal.                          *)
LEMMA RememberKeepsSound ==
    ASSUME NEW a, NEW rows, NEW r \in Process, Sound(r, a, rows), NEW o \in Ops,
           NEW row \in JournalOperation, row = rows[o],
           row.state = "WAITING_FOR_USER" => Warranted(o, rows),
           NEW n, n = [r EXCEPT !.snap[o] = row]
    PROVE  /\ n \in Process /\ Sound(n, a, rows)
           /\ n.pc = r.pc /\ n.idx = r.idx /\ n.out = r.out
  <1>1. n \in Process
    BY DEF Process
  <1>2. /\ n.pc = r.pc /\ n.idx = r.idx /\ n.waiting = r.waiting /\ n.out = r.out
        /\ n.snap = [r.snap EXCEPT ![o] = row]
    BY DEF Process
  <1>3. \A q \in Ops : n.snap[q] = IF q = o THEN row ELSE r.snap[q]
    BY <1>2 DEF Process
  <1>4. SnapshotSound(n, rows)
    BY <1>3 DEF Sound, SnapshotSound
  <1>5. ProgressSound(n, a, rows) /\ PositionSound(n, rows) /\ WriteSound(n, rows)
    BY <1>2 DEF Sound, ProgressSound, PositionSound, WriteSound
  <1> QED
    BY <1>1, <1>2, <1>4, <1>5 DEF Sound

-----------------------------------------------------------------------------
(* Steps of one process.                                                   *)

ProcessStep(p) ==
    /\ ex' = [ex EXCEPT ![p] = ex'[p]]
    /\ ex'[p] \in Process
    /\ Sound(ex'[p], approval', op')

(* Giving a process a sound record is a sound step.                        *)
LEMMA BecomesSound ==
    ASSUME ExecutorInv, NEW p \in Procs, NEW r \in Process, Becomes(p, r),
           Sound(r, approval', op')
    PROVE  ProcessStep(p)
  <1>1. ex' = [ex EXCEPT ![p] = r] /\ ex \in [Procs -> Process]
    BY DEF Becomes, ExecutorInv, ExecutorTypeOK
  <1>2. ex'[p] = r
    BY <1>1
  <1> QED
    BY <1>1, <1>2 DEF ProcessStep

(* What the invariant says of one process.                                 *)
LEMMA ProcessFacts ==
    ASSUME ExecutorInv, NEW p \in Procs
    PROVE  /\ ex[p] \in Process /\ Sound(ex[p], approval, op)
           /\ ex[p].idx <= Len(OpSeq) => Cur(p) \in Ops /\ Row(p) \in JournalOperation
           /\ ex[p].pc \notin {"down", "idle", "validate", "loop"}
                => InLoop(ex[p]) /\ ex[p].idx <= Len(OpSeq)
           /\ op \in [Ops -> JournalOperation]
  <1>1. ex[p] \in Process /\ Sound(ex[p], approval, op)
    BY DEF ExecutorInv, ExecutorTypeOK
  <1>2. ex[p].idx \in 1..(Len(OpSeq) + 1) /\ ex[p].snap \in [Ops -> JournalOperation]
    BY <1>1 DEF Process
  <1>3. ex[p].idx <= Len(OpSeq) => Cur(p) \in Ops
    BY <1>2, PlanFacts DEF Cur
  <1>4. op \in [Ops -> JournalOperation]
    BY DEF ExecutorInv, ExecutorTypeOK, JournalTypeOK
  <1> QED
    BY <1>1, <1>2, <1>3, <1>4 DEF Row, Sound, PositionSound, InLoop

(* Returning to the caller or going down forgets everything the process    *)
(* relied on.                                                              *)
LEMMA ReturnStep ==
    ASSUME ExecutorInv, NEW p \in Procs,
           Return(p) \/ Leave(p, TRUE) \/ Becomes(p, At("down"))
    PROVE  ProcessStep(p)
  <1>1. CASE Becomes(p, At("down"))
    BY <1>1, AtSound, BecomesSound
  <1>2. ASSUME NEW b \in BOOLEAN, Leave(p, b) PROVE ProcessStep(p)
    <2> DEFINE n == [At("idle") EXCEPT !.refused = b]
    <2>1. At("idle") \in Process /\ Sound(At("idle"), approval', op') /\ At("idle").pc = "idle"
      BY AtSound DEF At
    <2>2. /\ n \in Process /\ n.pc = "idle" /\ n.snap = At("idle").snap
          /\ n.idx = At("idle").idx /\ n.out = At("idle").out
      BY <2>1 DEF Process
    <2>3. Becomes(p, n)
      BY <1>2 DEF Leave
    <2> HIDE DEF n
    <2>4. Sound(n, approval', op')
      BY <2>1, <2>2 DEF Sound, SnapshotSound, ProgressSound, PositionSound, WriteSound
    <2> QED
      BY <2>2, <2>3, <2>4, BecomesSound
  <1>3. ex[p].refused \in BOOLEAN
    BY DEF ExecutorInv, ExecutorTypeOK, Process
  <1> QED
    BY <1>1, <1>2, <1>3 DEF Return

(* The same facts for a process that moves: going on,                      *)
LEMMA GotoStep ==
    ASSUME ExecutorInv, NEW p \in Procs, InLoop(ex[p]), ex[p].idx <= Len(OpSeq),
           Warranted(Cur(p), op), UNCHANGED <<approval, op>>,
           NEW label \in {"complete", "ready", "probe", "mark", "run"}, Goto(p, label)
    PROVE  ProcessStep(p)
  <1> DEFINE n == [ex[p] EXCEPT !.pc = label]
  <1>1. n \in Process /\ Sound(n, approval, op)
    BY ProcessFacts, GotoKeepsSound DEF Cur
  <1>2. Becomes(p, n)
    BY DEF Goto
  <1> HIDE DEF n
  <1> QED
    BY <1>1, <1>2, BecomesSound

(* preparing a write,                                                      *)
LEMMA WriteStep ==
    ASSUME ExecutorInv, NEW p \in Procs, InLoop(ex[p]), ex[p].idx <= Len(OpSeq),
           UNCHANGED <<approval, op>>,
           NEW label \in {"queue", "record", "status"},
           NEW state \in OperationState \ {"RUNNING"}, NEW proof \in BOOLEAN,
           NEW then \in (RunStatus \cup {"NONE"}) \ {"COMPLETED", "RUNNING"},
           label = "status" => then # "NONE",
           label = "queue" => Warranted(Cur(p), op),
           then = "NONE" => state \in Done \cup {"WAITING_FOR_USER"},
           state \in Done \cup {"WAITING_FOR_USER"} => Warranted(Cur(p), op),
           (/\ state = "COMPLETED" /\ Cur(p) \in Verify
            /\ Relevant[Cur(p)] # {}) => Evidence(Cur(p), op),
           Write(p, label, state, proof, then)
    PROVE  ProcessStep(p)
  <1> DEFINE n == [ex[p] EXCEPT !.pc = label,
                     !.out = [state |-> state, proof |-> proof, then |-> then]]
  <1>1. n \in Process /\ Sound(n, approval, op)
    BY ProcessFacts, WriteKeepsSound, ZenonT(40) DEF Cur
  <1>2. Becomes(p, n)
    BY DEF Write
  <1> HIDE DEF n
  <1> QED
    BY <1>1, <1>2, BecomesSound

(* persist_failure and the two ways of reporting a cancellation.           *)
LEMMA FailureStep ==
    ASSUME ExecutorInv, NEW p \in Procs, InLoop(ex[p]), ex[p].idx <= Len(OpSeq),
           UNCHANGED <<approval, op>>,
           PersistFailure(p) \/ CancelledReport(p) \/ CancelledOperation(p)
    PROVE  ProcessStep(p)
  <1>1. CASE PersistFailure(p)
    BY <1>1, WriteStep DEF PersistFailure, OperationState, RunStatus, Done
  <1>2. CASE CancelledReport(p)
    BY <1>2, WriteStep DEF CancelledReport, OperationState, RunStatus, Done
  <1>3. CASE CancelledOperation(p)
    BY <1>3, WriteStep DEF CancelledOperation, OperationState, RunStatus, Done
  <1> QED
    BY <1>1, <1>2, <1>3

(* and turning to the next operation.                                      *)
LEMMA AdvanceStep ==
    ASSUME ExecutorInv, NEW p \in Procs, InLoop(ex[p]), ex[p].idx <= Len(OpSeq),
           UNCHANGED <<approval, op>>, NEW w \in BOOLEAN,
           w = TRUE \/ op[Cur(p)].state \in Done, Advance(p, w)
    PROVE  ProcessStep(p)
  <1> DEFINE n == [ex[p] EXCEPT !.pc = "loop", !.idx = @ + 1, !.out = NoOutcome,
                                !.waiting = @ \/ w]
  <1>1. n \in Process /\ Sound(n, approval, op)
    BY ProcessFacts, AdvanceKeepsSound DEF Cur
  <1>2. Becomes(p, n)
    BY DEF Advance
  <1> HIDE DEF n
  <1> QED
    BY <1>1, <1>2, BecomesSound

(* Each branch at the top of the loop is warranted by the snapshot.        *)
LEMMA VisitStep ==
    ASSUME ExecutorInv, NEW p \in Procs, Visit(p)
    PROVE  ProcessStep(p) /\ UNCHANGED journalVars
  <1>1. /\ InLoop(ex[p]) /\ ex[p].idx <= Len(OpSeq) /\ Cur(p) \in Ops
        /\ SnapshotSound(ex[p], op)
    BY ProcessFacts
       DEF Visit, VisitDone, VisitPendingBlocker, VisitSkippedBlocker,
           VisitWaitingPrerequisite, VisitUnmetPrerequisite, VisitCancelled,
           VisitPreconditionFails, VisitForbiddenRetry, VisitReady, Eligible,
           Unblocked, AtOp, InLoop, Sound
  <1>2. UNCHANGED journalVars
    BY DEF Visit, VisitDone, VisitPendingBlocker, VisitSkippedBlocker,
           VisitWaitingPrerequisite, VisitUnmetPrerequisite, VisitCancelled,
           VisitPreconditionFails, VisitForbiddenRetry, VisitReady
  <1>3. UNCHANGED <<approval, op>>
    BY <1>2 DEF journalVars
  <1> SUFFICES ProcessStep(p)
    BY <1>2
  <1>4. CASE VisitDone(p)
    <2>1. op[Cur(p)].state \in Done
      BY <1>1, <1>4 DEF VisitDone, Row, SnapshotSound
    <2> QED
      BY <1>1, <1>3, <1>4, <2>1, AdvanceStep DEF VisitDone
  <1>5. CASE VisitPendingBlocker(p) \/ VisitWaitingPrerequisite(p)
    BY <1>1, <1>3, <1>5, AdvanceStep DEF VisitPendingBlocker, VisitWaitingPrerequisite
  <1>6. CASE VisitSkippedBlocker(p)
    <2>1. Warranted(Cur(p), op)
      BY <1>1, <1>6 DEF VisitSkippedBlocker, IsBlocked, Row, SnapshotSound
    <2> QED
      BY <1>1, <1>3, <1>6, <2>1, WriteStep
         DEF VisitSkippedBlocker, OperationState, Done
  <1>7. CASE VisitUnmetPrerequisite(p) \/ VisitCancelled(p) \/ VisitPreconditionFails(p)
    BY <1>1, <1>3, <1>7, FailureStep
       DEF VisitUnmetPrerequisite, VisitCancelled, VisitPreconditionFails
  <1>8. CASE VisitForbiddenRetry(p)
    BY <1>1, <1>3, <1>8, WriteStep
       DEF VisitForbiddenRetry, OperationState, RunStatus, Done
  <1>9. CASE VisitReady(p)
    <2>1. Warranted(Cur(p), op)
      BY <1>1, <1>9, PlanFacts
         DEF VisitReady, Eligible, PrerequisitesComplete, SnapshotSound, Warranted
    <2> QED
      BY <1>1, <1>3, <1>9, <2>1, GotoStep DEF VisitReady
  <1> QED
    BY <1>4, <1>5, <1>6, <1>7, <1>8, <1>9 DEF Visit

(* What a handler's outcome makes the process write is warranted by the    *)
(* prerequisites it was started on, and for a Verify operation by the      *)
(* evidence in its snapshot.                                               *)
LEMMA RunStep ==
    ASSUME ExecutorInv, NEW p \in Procs, Run(p)
    PROVE  ProcessStep(p) /\ UNCHANGED journalVars
  <1>1. ex[p].pc = "run"
    BY DEF Run, RunCancelled, RunVerify, RunReboot, RunManual, RunManualPending,
           RunCompletes, RunSkips, RunBlocks, RunFaults, Mutates, Running
  <1>2. /\ InLoop(ex[p]) /\ ex[p].idx <= Len(OpSeq) /\ Cur(p) \in Ops
        /\ SnapshotSound(ex[p], op) /\ Warranted(Cur(p), op)
    BY <1>1, ProcessFacts DEF InLoop, Sound, PositionSound, Cur
  <1>3. UNCHANGED journalVars
    BY DEF Run, RunCancelled, RunVerify, RunReboot, RunManual, RunManualPending,
           RunCompletes, RunSkips, RunBlocks, RunFaults
  <1>4. UNCHANGED <<approval, op>>
    BY <1>3 DEF journalVars
  <1> SUFFICES ProcessStep(p)
    BY <1>3
  <1>5. CASE RunCancelled(p)
    BY <1>2, <1>4, <1>5, FailureStep DEF RunCancelled
  <1>6. CASE RunVerify(p)
    <2>1. CASE PersistFailure(p)
      BY <1>2, <1>4, <2>1, FailureStep
    <2>2. CASE /\ Proven(p) \/ Relevant[Cur(p)] = {}
               /\ Write(p, "record", "COMPLETED", TRUE, "NONE")
      <3>1. Relevant[Cur(p)] # {} => Evidence(Cur(p), op)
        BY <1>2, <2>2, PlanFacts DEF Proven, Evidence, SnapshotSound
      <3> QED
        BY <1>2, <1>4, <2>2, <3>1, WriteStep DEF OperationState, Done
    <2> QED
      BY <1>6, <2>1, <2>2 DEF RunVerify
  <1>7. CASE RunReboot(p)
    BY <1>2, <1>4, <1>7, WriteStep DEF RunReboot, OperationState, RunStatus, Done
  <1>8. CASE RunManual(p)
    <2>1. Cur(p) \notin Verify
      BY <1>8, PlanAssumption DEF RunManual
    <2>2. CASE Goto(p, "complete")
      BY <1>2, <1>4, <2>2, GotoStep
    <2>3. CASE \E s \in Done : Write(p, "record", s, FALSE, "NONE")
      BY <1>2, <1>4, <2>1, <2>3, WriteStep DEF OperationState, Done
    <2> QED
      BY <1>8, <2>2, <2>3 DEF RunManual
  <1>9. CASE RunManualPending(p)
    BY <1>2, <1>4, <1>9, WriteStep DEF RunManualPending, OperationState, RunStatus, Done
  <1>10. CASE RunCompletes(p) \/ RunSkips(p) \/ RunBlocks(p)
    <2>1. Cur(p) \notin Verify
      BY <1>10 DEF RunCompletes, RunSkips, RunBlocks, Mutates
    <2> QED
      BY <1>2, <1>4, <1>10, <2>1, WriteStep
         DEF RunCompletes, RunSkips, RunBlocks, OperationState, Done
  <1>11. CASE RunFaults(p)
    <2>1. CASE PersistFailure(p) \/ CancelledOperation(p)
      BY <1>2, <1>4, <2>1, FailureStep
    <2>2. CASE \/ Write(p, "record", "SKIPPED", FALSE, "NONE")
               \/ Write(p, "record", "INTERRUPTED", FALSE, "INTERRUPTED")
               \/ Write(p, "record", "WAITING_FOR_REBOOT", FALSE, "WAITING_FOR_REBOOT")
      BY <1>2, <1>4, <2>2, WriteStep DEF OperationState, RunStatus, Done
    <2> QED
      BY <1>11, <2>1, <2>2 DEF RunFaults
  <1> QED
    BY <1>5, <1>6, <1>7, <1>8, <1>9, <1>10, <1>11 DEF Run

(* The remaining steps that leave the operation rows alone.                *)
LEMMA QuietStep ==
    ASSUME ExecutorInv, NEW p \in Procs,
           \/ Quit(p) \/ Crash(p) \/ Launch(p) \/ Validate(p) \/ Cancel(p)
           \/ Ready(p) \/ Probe(p) \/ ProbeError(p)
    PROVE  ProcessStep(p) /\ UNCHANGED journalVars
  <1>1. UNCHANGED journalVars
    BY DEF Quit, Crash, Launch, Validate, Cancel, Ready, Probe, ProbeError
  <1>2. UNCHANGED <<approval, op>>
    BY <1>1 DEF journalVars
  <1> SUFFICES ProcessStep(p)
    BY <1>1
  <1>3. ex[p] \in Process /\ Sound(ex[p], approval, op)
    BY ProcessFacts
  <1>4. CASE Quit(p) \/ Crash(p)
    BY <1>4, ReturnStep DEF Quit, Crash
  <1>5. CASE Launch(p)
    <2> DEFINE f == \A o \in Fingerprinted : effects[o] = 0
               n == [At("validate") EXCEPT !.fresh = f, !.refused = ex[p].refused]
    <2>1. At("validate") \in Process /\ Sound(At("validate"), approval, op)
      BY AtSound
    <2>2. n \in Process
      BY <1>3, <2>1 DEF Process
    <2>3. /\ n.pc = "validate" /\ n.snap = At("validate").snap /\ n.idx = 1
          /\ n.out = At("validate").out
      BY DEF At
    <2>4. At("validate").pc = "validate"
      BY DEF At
    <2>5. Becomes(p, n)
      BY <1>5 DEF Launch
    <2> HIDE DEF n
    <2>6. Sound(n, approval, op)
      BY <2>1, <2>3, <2>4
         DEF Sound, SnapshotSound, ProgressSound, PositionSound, WriteSound
    <2> QED
      BY <1>2, <2>2, <2>5, <2>6, BecomesSound
  <1>6. CASE Validate(p)
    <2>1. CASE Return(p)
      BY <2>1, ReturnStep
    <2>2. CASE approval = "APPROVED" /\ Becomes(p, [ex[p] EXCEPT !.pc = "loop", !.snap = op])
      <3> DEFINE n == [ex[p] EXCEPT !.pc = "loop", !.snap = op]
      <3>1. n \in Process
        BY <1>3, ProcessFacts DEF Process, Labels
      <3>2. /\ n.pc = "loop" /\ n.idx = ex[p].idx /\ n.snap = op /\ n.out = ex[p].out
        BY <1>3 DEF Process
      <3>3. Becomes(p, n)
        BY <2>2
      <3> HIDE DEF n
      <3>4. SnapshotSound(n, op)
        BY <3>2 DEF SnapshotSound, ExecutorInv, WaitingIsWarranted
      <3>5. ex[p].idx = 1
        BY <1>3, <1>6 DEF Validate, Sound, PositionSound
      <3>6. ProgressSound(n, approval, op)
        BY <2>2, <3>2, <3>5 DEF ProgressSound
      <3>7. PositionSound(n, op) /\ WriteSound(n, op)
        BY <1>3, <3>2 DEF Sound, PositionSound, WriteSound
      <3> QED
        BY <1>2, <3>1, <3>3, <3>4, <3>6, <3>7, BecomesSound DEF Sound
    <2> QED
      BY <1>6, <2>1, <2>2 DEF Validate
  <1>7. CASE Cancel(p)
    <2> DEFINE n == [ex[p] EXCEPT !.cancel = TRUE]
    <2>1. n \in Process /\ Sound(n, approval, op)
      BY <1>3, CancelKeepsSound
    <2>2. Becomes(p, n)
      BY <1>7 DEF Cancel
    <2> HIDE DEF n
    <2> QED
      BY <1>2, <2>1, <2>2, BecomesSound
  <1>8. CASE Ready(p) \/ Probe(p) \/ ProbeError(p)
    <2>1. /\ InLoop(ex[p]) /\ ex[p].idx <= Len(OpSeq) /\ Warranted(Cur(p), op)
      BY <1>8, <1>3, ProcessFacts
         DEF Ready, Probe, ProbeError, InLoop, Sound, PositionSound, Cur
    <2>2. CASE Goto(p, "mark") \/ Goto(p, "probe")
      BY <1>2, <2>1, <2>2, GotoStep
    <2>3. CASE CancelledReport(p) \/ PersistFailure(p)
      BY <1>2, <2>1, <2>3, FailureStep
    <2>4. CASE Write(p, "record", "SKIPPED", ~Decided(Cur(p)), "NONE")
      <3>1. CASE Write(p, "record", "SKIPPED", TRUE, "NONE")
        BY <1>2, <2>1, <3>1, WriteStep DEF OperationState, Done
      <3>2. CASE Write(p, "record", "SKIPPED", FALSE, "NONE")
        BY <1>2, <2>1, <3>2, WriteStep DEF OperationState, Done
      <3> QED
        BY <2>4, <3>1, <3>2 DEF Decided
    <2> QED
      BY <1>8, <2>2, <2>3, <2>4 DEF Ready, Probe, ProbeError
  <1> QED
    BY <1>4, <1>5, <1>6, <1>7, <1>8

(* A failing journal call writes nothing; the operation fails or the       *)
(* executor returns.                                                       *)
LEMMA FailsStep ==
    ASSUME ExecutorInv, NEW p \in Procs, JournalFails(p)
    PROVE  ProcessStep(p) /\ UNCHANGED journalVars
  <1>1. UNCHANGED journalVars /\ UNCHANGED <<approval, op>>
    BY DEF JournalFails, journalVars
  <1>2. CASE Return(p) \/ Leave(p, TRUE)
    BY <1>1, <1>2, ReturnStep
  <1>3. CASE /\ ex[p].pc \in {"complete", "mark", "queue", "run"}
             /\ PersistFailure(p) \/ CancelledOperation(p)
    <2>1. InLoop(ex[p]) /\ ex[p].idx <= Len(OpSeq)
      BY <1>3, ProcessFacts DEF InLoop, Sound, PositionSound
    <2> QED
      BY <1>1, <1>3, <2>1, FailureStep
  <1> QED
    BY <1>1, <1>2, <1>3 DEF JournalFails, ActionRefused, Running

-----------------------------------------------------------------------------
(* Steps that write to the journal.                                        *)

(* What the invariant says of the journal's rows and status alone.         *)
RowsInv ==
    /\ StartedAfterPrerequisites
    /\ WaitingIsWarranted
    /\ VerifiedOnEvidence
    /\ CompletedMeansDone

(* A step that leaves the rows alone, and does not set COMPLETED, keeps    *)
(* what is said of them.                                                   *)
LEMMA RowsUnchanged ==
    ASSUME ExecutorInv, op' = op, runStatus' = runStatus \/ runStatus' # "COMPLETED"
    PROVE  RowsInv'
  BY DEF ExecutorInv, RowsInv, StartedAfterPrerequisites, WaitingIsWarranted,
         VerifiedOnEvidence, CompletedMeansDone, Warranted

(* What the journal looks like after a transaction follows what it was.    *)
LEMMA JournalFollows ==
    ASSUME ExecutorInv, [JournalNext]_journalVars
    PROVE  Follows(approval, op, approval', op')
  BY JournalStepFinal DEF ExecutorInv, ExecutorTypeOK, Follows

(* A transition of an operation's row is one of the journal's              *)
(* transactions.                                                           *)
LEMMA TransitionIsJournalStep ==
    ASSUME NEW o \in Ops, NEW s \in OperationState, NEW proof \in BOOLEAN,
           TransitionOperation(o, s, proof)
    PROVE  JournalNext
  BY DEF JournalNext

(* A warranted transition keeps what is said of the rows.                  *)
LEMMA TransitionKeepsRows ==
    ASSUME ExecutorInv, NEW o \in Ops, NEW s \in OperationState, NEW proof \in BOOLEAN,
           TransitionOperation(o, s, proof),
           s \in Done \cup {"RUNNING", "WAITING_FOR_USER"} => Warranted(o, op),
           (s = "COMPLETED" /\ o \in Verify /\ Relevant[o] # {}) => Evidence(o, op)
    PROVE  RowsInv'
  <1>1. Follows(approval, op, approval', op')
    BY JournalFollows, TransitionIsJournalStep
  <1>2. op \in [Ops -> JournalOperation]
    BY DEF ExecutorInv, ExecutorTypeOK, JournalTypeOK
  <1>3. \A q \in Ops : q # o => op'[q] = op[q]
    BY <1>2 DEF TransitionOperation
  <1>4. \/ op'[o] = op[o]
        \/ /\ op'[o].state = s
           /\ op'[o].attempt > 0 => op[o].attempt > 0 \/ s = "RUNNING"
    BY <1>2 DEF TransitionOperation, Transitioned
  <1>5. ASSUME NEW q \in Ops PROVE /\ Warranted(q, op) => Warranted(q, op')
                                   /\ Evidence(q, op) => Evidence(q, op')
    BY <1>1, WarrantedIsStable
  <1>6. StartedAfterPrerequisites'
    <2> SUFFICES ASSUME NEW q \in Ops, op'[q].attempt > 0 \/ op'[q].state \in Done
                 PROVE  Warranted(q, op')
      BY DEF StartedAfterPrerequisites, Warranted
    <2>1. Warranted(q, op)
      BY <1>3, <1>4 DEF ExecutorInv, StartedAfterPrerequisites, Warranted
    <2> QED
      BY <1>5, <2>1
  <1>7. WaitingIsWarranted'
    <2> SUFFICES ASSUME NEW q \in Ops, op'[q].state = "WAITING_FOR_USER"
                 PROVE  Warranted(q, op')
      BY DEF WaitingIsWarranted
    <2>1. Warranted(q, op)
      BY <1>3, <1>4 DEF ExecutorInv, WaitingIsWarranted
    <2> QED
      BY <1>5, <2>1
  <1>8. VerifiedOnEvidence'
    <2> SUFFICES ASSUME NEW q \in Verify, op'[q].state = "COMPLETED", Relevant[q] # {}
                 PROVE  Evidence(q, op')
      BY DEF VerifiedOnEvidence, Evidence
    <2>1. q \in Ops
      BY PlanAssumption
    <2>2. Evidence(q, op)
      BY <1>3, <1>4, <2>1 DEF ExecutorInv, VerifiedOnEvidence, Evidence
    <2> QED
      BY <1>5, <2>1, <2>2
  <1>9. CompletedMeansDone'
    BY <1>1 DEF TransitionOperation, ExecutorInv, CompletedMeansDone, Follows
  <1> QED
    BY <1>6, <1>7, <1>8, <1>9 DEF RowsInv

(* Recovery moves RUNNING rows to INTERRUPTED, which nothing relies on.    *)
LEMMA RecoverKeepsRows ==
    ASSUME ExecutorInv, RecoverRunningOperations
    PROVE  RowsInv' /\ JournalNext
  <1>1. JournalNext
    BY DEF JournalNext
  <1>2. Follows(approval, op, approval', op')
    BY <1>1, JournalFollows
  <1>3. op \in [Ops -> JournalOperation]
    BY DEF ExecutorInv, ExecutorTypeOK, JournalTypeOK
  <1>4. \A q \in Ops : /\ op'[q].attempt = op[q].attempt
                       /\ op'[q] = op[q] \/ op'[q].state = "INTERRUPTED"
    BY <1>3 DEF RecoverRunningOperations, JournalOperation
  <1>5. ASSUME NEW q \in Ops PROVE /\ Warranted(q, op) => Warranted(q, op')
                                   /\ Evidence(q, op) => Evidence(q, op')
    BY <1>2, WarrantedIsStable
  <1>6. StartedAfterPrerequisites'
    <2> SUFFICES ASSUME NEW q \in Ops, op'[q].attempt > 0 \/ op'[q].state \in Done
                 PROVE  Warranted(q, op')
      BY DEF StartedAfterPrerequisites, Warranted
    <2>1. Warranted(q, op)
      BY <1>4 DEF ExecutorInv, StartedAfterPrerequisites, Warranted, Done
    <2> QED
      BY <1>5, <2>1
  <1>7. WaitingIsWarranted'
    BY <1>4, <1>5 DEF ExecutorInv, WaitingIsWarranted
  <1>8. VerifiedOnEvidence'
    <2> SUFFICES ASSUME NEW q \in Verify, op'[q].state = "COMPLETED", Relevant[q] # {}
                 PROVE  Evidence(q, op')
      BY DEF VerifiedOnEvidence, Evidence
    <2>1. q \in Ops
      BY PlanAssumption
    <2>2. Evidence(q, op)
      BY <1>4, <2>1 DEF ExecutorInv, VerifiedOnEvidence, Evidence
    <2> QED
      BY <1>5, <2>1, <2>2
  <1>9. CompletedMeansDone'
    BY <1>2 DEF RecoverRunningOperations, ExecutorInv, CompletedMeansDone, Follows
  <1> QED
    BY <1>1, <1>6, <1>7, <1>8, <1>9 DEF RowsInv

(* Opening the journal at process start.                                   *)
LEMMA OpenStep ==
    ASSUME ExecutorInv, NEW p \in Procs, OpenJournal(p)
    PROVE  ProcessStep(p) /\ JournalNext /\ RowsInv'
  <1>1. JournalNext /\ RowsInv'
    BY RecoverKeepsRows DEF OpenJournal
  <1>2. Sound(ex[p], approval', op') /\ ex[p] \in Process
    BY <1>1, JournalFollows, ProcessFacts, SoundIsStable
  <1> DEFINE n == [ex[p] EXCEPT !.pc = "idle"]
  <1>3. n \in Process
    BY <1>2 DEF Process, Labels
  <1>4. n.pc = "idle" /\ n.snap = ex[p].snap /\ n.out = ex[p].out
    BY <1>2 DEF Process
  <1>5. Becomes(p, n)
    BY DEF OpenJournal, Goto
  <1> HIDE DEF n
  <1>6. Sound(n, approval', op')
    BY <1>2, <1>4 DEF Sound, SnapshotSound, ProgressSound, PositionSound, WriteSound
  <1> QED
    BY <1>1, <1>3, <1>5, <1>6, BecomesSound

(* Consuming an acknowledgement, or failing to.                            *)
LEMMA CompleteActionStep ==
    ASSUME ExecutorInv, NEW p \in Procs, CompleteAction(p)
    PROVE  ProcessStep(p) /\ [JournalNext]_journalVars /\ RowsInv'
  <1>1. /\ InLoop(ex[p]) /\ ex[p].idx <= Len(OpSeq) /\ Warranted(Cur(p), op)
    BY ProcessFacts DEF CompleteAction, InLoop, Sound, PositionSound, Cur
  <1>2. UNCHANGED <<runStatus, approval, op>>
    BY DEF CompleteAction, SetManualActionState, journalVars
  <1>3. RowsInv'
    BY <1>2, RowsUnchanged
  <1>4. [JournalNext]_journalVars
    <2>1. CASE SetManualActionState(Acknowledged(p), "COMPLETED")
      <3>1. Acknowledged(p) \in ActionId
        BY <2>1 DEF SetManualActionState, CanSetAction, ExecutorInv, ExecutorTypeOK,
                    JournalTypeOK
      <3> QED
        BY <2>1, <3>1 DEF JournalNext, ActionState
    <2>2. CASE UNCHANGED journalVars
      BY <2>2
    <2> QED
      BY <2>1, <2>2 DEF CompleteAction
  <1>5. CASE Goto(p, "ready")
    BY <1>1, <1>2, <1>3, <1>4, <1>5, GotoStep
  <1>6. CASE CancelledOperation(p) \/ PersistFailure(p)
    BY <1>1, <1>2, <1>3, <1>4, <1>6, FailureStep
  <1>7. CASE Cur(p) \in Manual /\ Write(p, "record", "COMPLETED", FALSE, "NONE")
    <2>1. Cur(p) \notin Verify
      BY <1>7, PlanAssumption
    <2> QED
      BY <1>1, <1>2, <1>3, <1>4, <1>7, <2>1, WriteStep DEF OperationState, Done
  <1> QED
    BY <1>5, <1>6, <1>7 DEF CompleteAction, ActionRefused

(* The row a transition stores is the row the process remembers.           *)
LEMMA TransitionRemembered ==
    ASSUME ExecutorInv, NEW p \in Procs, ex[p].idx <= Len(OpSeq),
           NEW s \in OperationState, NEW proof \in BOOLEAN,
           TransitionOperation(Cur(p), s, proof),
           s \in Done \cup {"RUNNING", "WAITING_FOR_USER"} => Warranted(Cur(p), op),
           (s = "COMPLETED" /\ Cur(p) \in Verify /\ Relevant[Cur(p)] # {})
             => Evidence(Cur(p), op)
    PROVE  LET n == Remember(p, Transitioned(Cur(p), s, proof))
           IN  /\ n \in Process /\ Sound(n, approval', op')
               /\ n.pc = ex[p].pc /\ n.idx = ex[p].idx /\ n.out = ex[p].out
               /\ op'[Cur(p)].state \in Done \cup {s}
               /\ JournalNext /\ RowsInv'
               /\ Warranted(Cur(p), op) => Warranted(Cur(p), op')
  <1>1. Cur(p) \in Ops /\ ex[p] \in Process /\ op \in [Ops -> JournalOperation]
    BY ProcessFacts
  <1>2. JournalNext /\ RowsInv'
    BY <1>1, TransitionIsJournalStep, TransitionKeepsRows
  <1>3. Follows(approval, op, approval', op')
    BY <1>2, JournalFollows
  <1>4. Sound(ex[p], approval', op')
    BY <1>3, ProcessFacts, SoundIsStable
  <1>5. op' \in [Ops -> JournalOperation]
    BY <1>2, JournalStepType DEF ExecutorInv, ExecutorTypeOK, JournalTypeOK
  <1>6. op'[Cur(p)] = Transitioned(Cur(p), s, proof)
    BY <1>1 DEF TransitionOperation
  <1>7. op'[Cur(p)].state \in Done \cup {s}
    BY <1>6 DEF Transitioned
  <1>8. op'[Cur(p)].state = "WAITING_FOR_USER" => Warranted(Cur(p), op')
    BY <1>1, <1>2 DEF RowsInv, WaitingIsWarranted
  <1> DEFINE row == Transitioned(Cur(p), s, proof)
             n == Remember(p, row)
  <1>9. row \in JournalOperation /\ row = op'[Cur(p)]
    BY <1>1, <1>5, <1>6
  <1>10. n = [ex[p] EXCEPT !.snap[Cur(p)] = row]
    BY DEF Remember
  <1> HIDE DEF row, n
  <1>11. /\ n \in Process /\ Sound(n, approval', op')
         /\ n.pc = ex[p].pc /\ n.idx = ex[p].idx /\ n.out = ex[p].out
    BY <1>1, <1>4, <1>8, <1>9, <1>10, RememberKeepsSound
  <1>12. Warranted(Cur(p), op) => Warranted(Cur(p), op')
    BY <1>1, <1>3, WarrantedIsStable
  <1> QED
    BY <1>2, <1>7, <1>11, <1>12 DEF n, row

(* mark_operation_running: the attempt is journalled, or refused.          *)
LEMMA MarkRunningStep ==
    ASSUME ExecutorInv, NEW p \in Procs, MarkRunning(p)
    PROVE  ProcessStep(p) /\ [JournalNext]_journalVars /\ RowsInv'
  <1>1. /\ InLoop(ex[p]) /\ ex[p].idx <= Len(OpSeq) /\ Warranted(Cur(p), op)
        /\ ex[p].pc = "mark"
    BY ProcessFacts DEF MarkRunning, InLoop, Sound, PositionSound, Cur
  <1>2. CASE PersistFailure(p) /\ UNCHANGED journalVars
    <2>1. UNCHANGED <<runStatus, approval, op>>
      BY <1>2 DEF journalVars
    <2> QED
      BY <1>1, <1>2, <2>1, FailureStep, RowsUnchanged
  <1>3. CASE /\ TransitionOperation(Cur(p), "RUNNING", FALSE)
             /\ Becomes(p, [Remember(p, Transitioned(Cur(p), "RUNNING", FALSE))
                               EXCEPT !.pc = "run"])
    <2> DEFINE m == Remember(p, Transitioned(Cur(p), "RUNNING", FALSE))
               n == [m EXCEPT !.pc = "run"]
    <2>1. /\ m \in Process /\ Sound(m, approval', op')
          /\ m.pc = ex[p].pc /\ m.idx = ex[p].idx
          /\ JournalNext /\ RowsInv' /\ Warranted(Cur(p), op')
      BY <1>1, <1>3, TransitionRemembered DEF OperationState
    <2>2. Becomes(p, n)
      BY <1>3
    <2> HIDE DEF m
    <2>3. n \in Process /\ Sound(n, approval', op')
      BY <1>1, <2>1, GotoKeepsSound DEF InLoop, Cur
    <2> HIDE DEF n
    <2> QED
      BY <2>1, <2>2, <2>3, BecomesSound
  <1> QED
    BY <1>2, <1>3 DEF MarkRunning

(* Queueing the action of a blocked attempt leaves the rows alone.         *)
LEMMA QueueBlockerStep ==
    ASSUME ExecutorInv, NEW p \in Procs, QueueBlocker(p)
    PROVE  ProcessStep(p) /\ [JournalNext]_journalVars /\ RowsInv'
  <1>1. /\ ex[p] \in Process /\ Sound(ex[p], approval, op) /\ ex[p].pc = "queue"
        /\ Cur(p) \in Ops /\ Row(p) \in JournalOperation
    BY ProcessFacts DEF QueueBlocker
  <1>2. UNCHANGED <<runStatus, approval, op>>
    BY DEF QueueBlocker, AddManualAction, journalVars
  <1>3. [JournalNext]_journalVars
    <2>1. Blocker(p) \in ActionId
      BY <1>1 DEF Blocker, ActionId, JournalOperation
    <2> QED
      BY <2>1 DEF QueueBlocker, JournalNext
  <1> DEFINE n == [ex[p] EXCEPT !.pc = "record"]
  <1>4. n \in Process
    BY <1>1 DEF Process, Labels
  <1>5. /\ n.pc = "record" /\ n.idx = ex[p].idx /\ n.snap = ex[p].snap
        /\ n.waiting = ex[p].waiting /\ n.out = ex[p].out
    BY <1>1 DEF Process
  <1>6. Becomes(p, n)
    BY DEF QueueBlocker, Goto
  <1> HIDE DEF n
  <1>7. Sound(n, approval, op)
    BY <1>1, <1>5 DEF Sound, SnapshotSound, ProgressSound, PositionSound, WriteSound
  <1> QED
    BY <1>2, <1>3, <1>4, <1>6, <1>7, BecomesSound, RowsUnchanged

(* Persisting an outcome writes what the process was warranted to write.   *)
LEMMA RecordStep ==
    ASSUME ExecutorInv, NEW p \in Procs, Record(p)
    PROVE  ProcessStep(p) /\ [JournalNext]_journalVars /\ RowsInv'
  <1> DEFINE out == ex[p].out
             m == Remember(p, Transitioned(Cur(p), out.state, out.proof))
  <1>1. /\ ex[p] \in Process /\ WriteSound(ex[p], op) /\ ex[p].pc = "record"
        /\ InLoop(ex[p]) /\ ex[p].idx <= Len(OpSeq)
    BY ProcessFacts DEF Record, Sound
  <1>2. /\ out.state \in OperationState \ {"RUNNING"} /\ out.proof \in BOOLEAN
        /\ out.then \in RunStatus \cup {"NONE"}
    BY <1>1 DEF WriteSound, Process, Outcome
  <1>3. CASE Return(p) /\ UNCHANGED journalVars
    <2>1. UNCHANGED <<runStatus, approval, op>>
      BY <1>3 DEF journalVars
    <2> QED
      BY <1>3, <2>1, ReturnStep, RowsUnchanged
  <1>4. CASE TransitionOperation(Cur(p), out.state, out.proof)
    <2>1. /\ m \in Process /\ Sound(m, approval', op')
          /\ m.pc = ex[p].pc /\ m.idx = ex[p].idx /\ m.out = out
          /\ op'[Cur(p)].state \in Done \cup {out.state}
          /\ JournalNext /\ RowsInv'
      <3>1. /\ out.state \in Done \cup {"RUNNING", "WAITING_FOR_USER"}
                 => Warranted(Cur(p), op)
            /\ (out.state = "COMPLETED" /\ Cur(p) \in Verify /\ Relevant[Cur(p)] # {})
                 => Evidence(Cur(p), op)
        BY <1>1, <1>2 DEF WriteSound, Cur
      <3> QED
        BY <1>1, <1>2, <1>4, <3>1, TransitionRemembered
    <2> HIDE DEF m
    <2>2. CASE out.then # "NONE" /\ Becomes(p, [m EXCEPT !.pc = "status"])
      <3> DEFINE n == [m EXCEPT !.pc = "status"]
      <3>1. n \in Process
        BY <2>1 DEF Process, Labels
      <3>2. /\ n.pc = "status" /\ n.idx = m.idx /\ n.snap = m.snap
            /\ n.waiting = m.waiting /\ n.out = m.out
        BY <2>1 DEF Process
      <3>3. Becomes(p, n)
        BY <2>2
      <3> HIDE DEF n
      <3>4. Sound(n, approval', op')
        BY <1>1, <2>1, <2>2, <3>2
           DEF Sound, SnapshotSound, ProgressSound, PositionSound, WriteSound, InLoop
      <3> QED
        BY <2>1, <3>1, <3>3, <3>4, BecomesSound
    <2>3. CASE /\ out.then = "NONE"
               /\ Becomes(p, [m EXCEPT !.pc = "loop", !.idx = @ + 1, !.out = NoOutcome,
                                 !.waiting = @ \/ out.state = "WAITING_FOR_USER"])
      <3> DEFINE w == out.state = "WAITING_FOR_USER"
                 n == [m EXCEPT !.pc = "loop", !.idx = @ + 1, !.out = NoOutcome,
                                !.waiting = @ \/ w]
      <3>1. w \in BOOLEAN /\ (w = TRUE \/ op'[OpSeq[m.idx]].state \in Done)
        BY <1>1, <2>1, <2>3 DEF WriteSound, Cur
      <3>2. Becomes(p, n)
        BY <2>3
      <3> HIDE DEF w
      <3>3. n \in Process /\ Sound(n, approval', op')
        BY <1>1, <2>1, <3>1, AdvanceKeepsSound DEF InLoop
      <3> HIDE DEF n
      <3> QED
        BY <2>1, <3>2, <3>3, BecomesSound
    <2> QED
      BY <1>3, <1>4, <2>2, <2>3 DEF Record, m
  <1> QED
    BY <1>3, <1>4 DEF Record

(* No early return sets COMPLETED.                                         *)
LEMMA SetStatusStep ==
    ASSUME ExecutorInv, NEW p \in Procs, SetStatus(p)
    PROVE  ProcessStep(p) /\ [JournalNext]_journalVars /\ RowsInv'
  <1>1. ex[p].out.then \in RunStatus \ {"COMPLETED"}
    BY ProcessFacts DEF SetStatus, Sound, WriteSound, Process, Outcome
  <1>2. JournalNext
    BY <1>1 DEF SetStatus, JournalNext
  <1>3. op' = op /\ runStatus' # "COMPLETED"
    BY <1>1 DEF SetStatus, SetRunStatus
  <1> QED
    BY <1>2, <1>3, ReturnStep, RowsUnchanged DEF SetStatus

(* The end of the loop sets COMPLETED only when nothing was left behind,   *)
(* and then all operations are verified in the journal itself.             *)
LEMMA FinishStep ==
    ASSUME ExecutorInv, NEW p \in Procs, Finish(p)
    PROVE  ProcessStep(p) /\ [JournalNext]_journalVars /\ RowsInv'
  <1>1. JournalNext
    BY DEF Finish, JournalNext, RunStatus
  <1>2. op' = op
    BY DEF Finish, SetRunStatus
  <1>3. ProcessStep(p)
    BY ReturnStep DEF Finish
  <1>4. CASE runStatus' # "COMPLETED"
    BY <1>1, <1>2, <1>3, <1>4, RowsUnchanged
  <1>5. CASE runStatus' = "COMPLETED"
    <2>1. ex[p].pc = "loop" /\ ex[p].idx > Len(OpSeq) /\ ex[p].waiting # TRUE
      BY <1>5 DEF Finish, SetRunStatus
    <2>2. \A i \in 1..(ex[p].idx - 1) : op[OpSeq[i]].state \in Done
      BY <2>1, ProcessFacts DEF Sound, ProgressSound
    <2>3. ex[p].idx = Len(OpSeq) + 1
      BY <2>1, ProcessFacts, PlanFacts DEF Process
    <2>4. \A i \in 1..Len(OpSeq) : op[OpSeq[i]].state \in Done
      BY <2>2, <2>3, PlanFacts
    <2>5. \A o \in Ops : op[o].state \in Done
      BY <2>4, PlanAssumption
    <2>6. CompletedMeansDone'
      BY <1>2, <2>5 DEF CompletedMeansDone
    <2> QED
      BY <1>1, <1>2, <1>3, <2>6
         DEF ExecutorInv, RowsInv, StartedAfterPrerequisites, WaitingIsWarranted,
             VerifiedOnEvidence, Warranted
  <1> QED
    BY <1>4, <1>5

-----------------------------------------------------------------------------
(* Any step of the system.                                                 *)

ProcessMoves(p) ==
    \/ OpenJournal(p) \/ Quit(p) \/ Crash(p) \/ Launch(p) \/ Cancel(p)
    \/ Execute(p) \/ JournalFails(p)

(* Each step of a process keeps its record sound and is one journal        *)
(* transaction or none.                                                    *)
LEMMA ProcessMovesStep ==
    ASSUME ExecutorInv, NEW p \in Procs, ProcessMoves(p)
    PROVE  ProcessStep(p) /\ [JournalNext]_journalVars /\ RowsInv'
  <1>1. CASE OpenJournal(p)
    BY <1>1, OpenStep
  <1>2. CASE CompleteAction(p)
    BY <1>2, CompleteActionStep
  <1>3. CASE MarkRunning(p)
    BY <1>3, MarkRunningStep
  <1>4. CASE QueueBlocker(p)
    BY <1>4, QueueBlockerStep
  <1>5. CASE Record(p)
    BY <1>5, RecordStep
  <1>6. CASE SetStatus(p)
    BY <1>6, SetStatusStep
  <1>7. CASE Finish(p)
    BY <1>7, FinishStep
  <1>8. CASE \/ Quit(p) \/ Crash(p) \/ Launch(p) \/ Validate(p) \/ Cancel(p)
             \/ Ready(p) \/ Probe(p) \/ ProbeError(p) \/ Visit(p) \/ Run(p)
             \/ JournalFails(p)
    <2>1. ProcessStep(p) /\ UNCHANGED journalVars
      BY <1>8, QuietStep, VisitStep, RunStep, FailsStep
    <2>2. op' = op /\ runStatus' = runStatus
      BY <2>1 DEF journalVars
    <2> QED
      BY <2>1, <2>2, RowsUnchanged
  <1> QED
    BY <1>1, <1>2, <1>3, <1>4, <1>5, <1>6, <1>7, <1>8 DEF ProcessMoves, Execute

UserMoves ==
    \/ OtherCommandOpens
    \/ Decide
    \/ \E a \in ActionId : Acknowledge(a) \/ Skip(a)

(* The user and other commands touch the journal only.                     *)
LEMMA UserMovesStep ==
    ASSUME ExecutorInv, UserMoves
    PROVE  ex' = ex /\ JournalNext /\ RowsInv' /\ UNCHANGED world
  <1>1. CASE OtherCommandOpens
    BY <1>1, RecoverKeepsRows DEF OtherCommandOpens
  <1>2. CASE Decide
    <2>1. JournalNext
      BY <1>2 DEF Decide, JournalNext, ApprovalState
    <2>2. op' = op /\ runStatus' = runStatus
      BY <1>2 DEF Decide, SetApproval
    <2> QED
      BY <1>2, <2>1, <2>2, RowsUnchanged DEF Decide
  <1>3. CASE \E a \in ActionId : Acknowledge(a) \/ Skip(a)
    <2>1. JournalNext
      BY <1>3 DEF Acknowledge, Skip, JournalNext, ActionState
    <2>2. op' = op /\ runStatus' = runStatus
      BY <1>3 DEF Acknowledge, Skip, SetManualActionState
    <2> QED
      BY <1>3, <2>1, <2>2, RowsUnchanged DEF Acknowledge, Skip
  <1> QED
    BY <1>1, <1>2, <1>3 DEF UserMoves

(* The bounds hold: faults and blocks are counted under their guards.      *)
LEMMA WorldStep ==
    ASSUME ExecutorInv, NEW p \in Procs, ProcessMoves(p)
    PROVE  /\ effects' \in [Ops -> Nat]
           /\ faults' \in 0..MaxFaults
           /\ blocks' \in 0..MaxBlocks
  <1>1. /\ effects \in [Ops -> Nat] /\ faults \in 0..MaxFaults
        /\ blocks \in 0..MaxBlocks
    BY DEF ExecutorInv, ExecutorTypeOK
  <1>2. /\ UNCHANGED effects \/ Apply(Cur(p))
        /\ UNCHANGED faults \/ Fault
        /\ UNCHANGED blocks \/ AskUser
    <2>1. CASE UNCHANGED world
      BY <2>1 DEF world
    <2>2. CASE \/ Crash(p) \/ Cancel(p) \/ ProbeError(p) \/ VisitPreconditionFails(p)
               \/ JournalFails(p)
      BY <2>2 DEF Crash, Cancel, ProbeError, VisitPreconditionFails, JournalFails
    <2>3. CASE RunManualPending(p) \/ RunCompletes(p) \/ RunBlocks(p) \/ RunFaults(p)
      BY <2>3 DEF RunManualPending, RunCompletes, RunBlocks, RunFaults
    <2>4. CASE \/ VisitDone(p) \/ VisitPendingBlocker(p) \/ VisitSkippedBlocker(p)
               \/ VisitWaitingPrerequisite(p) \/ VisitUnmetPrerequisite(p)
               \/ VisitCancelled(p) \/ VisitForbiddenRetry(p) \/ VisitReady(p)
      BY <2>1, <2>4
         DEF VisitDone, VisitPendingBlocker, VisitSkippedBlocker,
             VisitWaitingPrerequisite, VisitUnmetPrerequisite, VisitCancelled,
             VisitForbiddenRetry, VisitReady
    <2>5. CASE \/ RunCancelled(p) \/ RunVerify(p) \/ RunReboot(p) \/ RunManual(p)
               \/ RunSkips(p)
      BY <2>1, <2>5 DEF RunCancelled, RunVerify, RunReboot, RunManual, RunSkips
    <2>6. CASE \/ OpenJournal(p) \/ Quit(p) \/ Launch(p) \/ Validate(p)
               \/ CompleteAction(p) \/ Ready(p) \/ Probe(p) \/ MarkRunning(p)
               \/ QueueBlocker(p) \/ Record(p) \/ SetStatus(p) \/ Finish(p)
      BY <2>1, <2>6 DEF OpenJournal, Quit, Launch, Validate, CompleteAction, Ready,
                        Probe, MarkRunning, QueueBlocker, Record, SetStatus, Finish
    <2> QED
      BY <2>2, <2>3, <2>4, <2>5, <2>6 DEF ProcessMoves, Execute, Visit, Run
  <1>3. effects' \in [Ops -> Nat]
    BY <1>1, <1>2 DEF Apply
  <1>4. faults' \in 0..MaxFaults /\ blocks' \in 0..MaxBlocks
    BY <1>1, <1>2, BoundAssumption DEF Fault, AskUser
  <1> QED
    BY <1>3, <1>4

(* Every step of the system is one journal transaction or leaves the       *)
(* journal alone.                                                          *)
LEMMA StepIsJournalled ==
    ASSUME ExecutorInv, [Next]_vars PROVE [JournalNext]_journalVars
  <1>1. CASE UNCHANGED vars
    BY <1>1 DEF vars, journalVars
  <1>2. CASE \E p \in Procs : ProcessMoves(p)
    BY <1>2, ProcessMovesStep
  <1>3. CASE UserMoves
    BY <1>3, UserMovesStep
  <1> QED
    BY <1>1, <1>2, <1>3 DEF Next, ProcessMoves, UserMoves

(* A freshly created run satisfies the invariant.                          *)
LEMMA InitInv == Init => ExecutorInv
  <1> SUFFICES ASSUME Init PROVE ExecutorInv
    OBVIOUS
  <1>1. ex \in [Procs -> Process] /\ \A p \in Procs : Sound(ex[p], approval, op)
    BY AtSound DEF Init
  <1>2. ExecutorTypeOK
    BY <1>1, JournalInitType, BoundAssumption DEF Init, ExecutorTypeOK
  <1>3. \A o \in Ops : op[o].state = "PENDING" /\ op[o].attempt = 0
    BY DEF Init, JournalInit
  <1>4. StartedAfterPrerequisites /\ WaitingIsWarranted
    BY <1>3 DEF StartedAfterPrerequisites, WaitingIsWarranted, Done
  <1>5. VerifiedOnEvidence
    BY <1>3, PlanAssumption DEF VerifiedOnEvidence
  <1>6. CompletedMeansDone
    BY DEF Init, JournalInit, CompletedMeansDone
  <1> QED
    BY <1>1, <1>2, <1>4, <1>5, <1>6 DEF ExecutorInv

(* The invariant is inductive: the process that moves is covered by its    *)
(* step, every other one by SoundIsStable.                                 *)
LEMMA InvIsInductive ==
    ASSUME ExecutorInv, [Next]_vars PROVE ExecutorInv'
  <1>1. JournalTypeOK' /\ Follows(approval, op, approval', op')
    BY StepIsJournalled, JournalStepType, JournalFollows DEF ExecutorInv, ExecutorTypeOK
  <1>2. ASSUME NEW q \in Procs PROVE Sound(ex[q], approval', op')
    BY <1>1, ProcessFacts, SoundIsStable
  <1>3. ASSUME NEW p \in Procs, ProcessMoves(p) PROVE ExecutorInv'
    <2>1. ProcessStep(p) /\ RowsInv'
      BY <1>3, ProcessMovesStep
    <2>2. ex \in [Procs -> Process]
      BY DEF ExecutorInv, ExecutorTypeOK
    <2>3. ex' \in [Procs -> Process] /\ \A q \in Procs : q # p => ex'[q] = ex[q]
      BY <2>1, <2>2 DEF ProcessStep
    <2>4. \A q \in Procs : Sound(ex'[q], approval', op')
      BY <1>2, <2>1, <2>3 DEF ProcessStep
    <2>5. ExecutorTypeOK'
      BY <1>1, <1>3, <2>3, WorldStep DEF ExecutorTypeOK
    <2> QED
      BY <2>1, <2>4, <2>5 DEF ExecutorInv, RowsInv
  <1>4. CASE UserMoves
    <2>1. ex' = ex /\ RowsInv' /\ UNCHANGED <<effects, faults, blocks>>
      BY <1>4, UserMovesStep DEF world
    <2>2. ExecutorTypeOK'
      BY <1>1, <2>1 DEF ExecutorInv, ExecutorTypeOK
    <2>3. \A q \in Procs : Sound(ex'[q], approval', op')
      BY <1>2, <2>1
    <2> QED
      BY <2>1, <2>2, <2>3 DEF ExecutorInv, RowsInv
  <1>5. CASE UNCHANGED vars
    <2>1. /\ op' = op /\ runStatus' = runStatus /\ ex' = ex
          /\ UNCHANGED <<effects, faults, blocks>>
      BY <1>5 DEF vars
    <2>2. RowsInv'
      BY <2>1, RowsUnchanged
    <2>3. ExecutorTypeOK'
      BY <1>1, <2>1 DEF ExecutorInv, ExecutorTypeOK
    <2>4. \A q \in Procs : Sound(ex'[q], approval', op')
      BY <1>2, <2>1
    <2> QED
      BY <2>2, <2>3, <2>4 DEF ExecutorInv, RowsInv
  <1> QED
    BY <1>3, <1>4, <1>5 DEF Next, ProcessMoves, UserMoves

-----------------------------------------------------------------------------
(* The theorems.                                                           *)

(* The invariant holds in every reachable state.                           *)
LEMMA InvHolds == Spec => []ExecutorInv
  <1>1. ExecutorInv /\ [Next]_vars => ExecutorInv'
    BY InvIsInductive
  <1> QED
    BY <1>1, InitInv, PTL DEF Spec

(* Every variable keeps its type in every reachable state: the loop index  *)
(* of execute_with_progress stays within the plan and the journal's rows   *)
(* stay well-formed, for every plan and any number of processes.           *)
THEOREM ExecutorTypeCorrect == Spec => []ExecutorTypeOK
  BY InvHolds, PTL DEF ExecutorInv

(* No operation is started, completed or skipped before its prerequisites, *)
(* although prerequisites_complete decides on a snapshot that other        *)
(* processes outdate.                                                      *)
THEOREM PrerequisitesComeFirst == Spec => []StartedAfterPrerequisites
  BY InvHolds, PTL DEF ExecutorInv

(* A run whose status is COMPLETED has only verified operations, however   *)
(* many processes executed it and whichever of them wrote the status.      *)
THEOREM CompletedRunsAreDone == Spec => []CompletedMeansDone
  BY InvHolds, PTL DEF ExecutorInv

(* A Verify operation is COMPLETED only on evidence that the journal still *)
(* holds (operation_verification_proof reads the snapshot).                *)
THEOREM VerificationRestsOnEvidence == Spec => []VerifiedOnEvidence
  BY InvHolds, PTL DEF ExecutorInv

(* The executor uses the journal only through its transactions, so what is *)
(* proved of the journal under any client holds of the whole system.       *)
THEOREM ExecutorUsesJournal == Spec => JournalSpec
  <1>1. Init => JournalInit
    BY DEF Init
  <1>2. ExecutorInv /\ [Next]_vars => [JournalNext]_journalVars
    BY StepIsJournalled
  <1> QED
    BY <1>1, <1>2, InvHolds, PTL DEF Spec, JournalSpec

-----------------------------------------------------------------------------
(* Refinement: the journal's rows implement RestoreLifecycle.              *)

DoneOps == {o \in Ops : op[o].state \in Done}

(* Only Record makes an operation Done, and it writes what the process     *)
(* decided for an approved run after the operation's prerequisites.        *)
LEMMA NewlyDoneIsWarranted ==
    ASSUME ExecutorInv, [Next]_vars, NEW o \in Ops,
           op[o].state \notin Done, op'[o].state \in Done
    PROVE  approval = "APPROVED" /\ Warranted(o, op)
  <1>1. op \in [Ops -> JournalOperation]
    BY DEF ExecutorInv, ExecutorTypeOK, JournalTypeOK
  <1>2. ~RecoverRunningOperations
    BY <1>1 DEF RecoverRunningOperations, Done, JournalOperation
  <1>3. op' # op
    OBVIOUS
  <1>4. ~UserMoves
    BY <1>2, <1>3 DEF UserMoves, OtherCommandOpens, Decide, Acknowledge, Skip,
                      SetApproval, SetManualActionState
  <1>5. PICK p \in Procs : ProcessMoves(p)
    BY <1>3, <1>4 DEF Next, ProcessMoves, UserMoves, vars
  <1>6. MarkRunning(p) \/ Record(p)
    <2>1. ~(\/ Quit(p) \/ Crash(p) \/ Launch(p) \/ Validate(p) \/ Cancel(p)
            \/ Ready(p) \/ Probe(p) \/ ProbeError(p) \/ Visit(p) \/ Run(p)
            \/ JournalFails(p))
      BY <1>3, QuietStep, VisitStep, RunStep, FailsStep DEF journalVars
    <2>2. ~(CompleteAction(p) \/ QueueBlocker(p) \/ SetStatus(p) \/ Finish(p))
      BY <1>3 DEF CompleteAction, QueueBlocker, SetStatus, Finish, SetRunStatus,
                  SetManualActionState, AddManualAction, journalVars
    <2>3. ~OpenJournal(p)
      BY <1>2 DEF OpenJournal
    <2> QED
      BY <1>5, <2>1, <2>2, <2>3 DEF ProcessMoves, Execute
  <1>7. PICK s \in OperationState, proof \in BOOLEAN :
            /\ TransitionOperation(Cur(p), s, proof)
            /\ s = "RUNNING" \/ (ex[p].pc = "record" /\ s = ex[p].out.state)
    <2>1. CASE MarkRunning(p)
      BY <1>3, <2>1 DEF MarkRunning, OperationState, journalVars
    <2>2. CASE Record(p)
      <3>1. ex[p].out.state \in OperationState /\ ex[p].out.proof \in BOOLEAN
        BY ProcessFacts DEF Process, Outcome
      <3> QED
        BY <1>3, <2>2, <3>1 DEF Record, journalVars
    <2> QED
      BY <1>6, <2>1, <2>2
  <1>8. Cur(p) = o /\ op'[o].state = s
    BY <1>1, <1>7 DEF TransitionOperation, Transitioned
  <1>9. ex[p].pc = "record" /\ ex[p].out.state = s
    BY <1>7, <1>8 DEF Done
  <1> QED
    BY <1>8, <1>9, ProcessFacts DEF Sound, ProgressSound, WriteSound, Cur

(* Every step of the system is a step of the abstract run or none.         *)
LEMMA StepIsLifecycleStep ==
    ASSUME ExecutorInv, ExecutorInv', [Next]_vars
    PROVE  [Lifecycle!LifecycleNext]_(Lifecycle!lifecycleVars)
  <1>1. op \in [Ops -> JournalOperation]
    BY DEF ExecutorInv, ExecutorTypeOK, JournalTypeOK
  <1>2. CASE UNCHANGED <<approval, op>>
    <2>1. DoneOps' = DoneOps
      BY <1>2 DEF DoneOps
    <2>2. CASE (runStatus' = "COMPLETED") = (runStatus = "COMPLETED")
      BY <1>2, <2>1, <2>2 DEF Lifecycle!lifecycleVars, DoneOps
    <2>3. CASE runStatus' = "COMPLETED" /\ runStatus # "COMPLETED"
      <3>1. DoneOps = Ops
        BY <1>2, <2>3 DEF DoneOps, ExecutorInv, CompletedMeansDone
      <3>2. Lifecycle!ReportFinished
        BY <1>2, <2>1, <2>3, <3>1 DEF Lifecycle!ReportFinished, DoneOps
      <3> QED
        BY <3>2 DEF Lifecycle!LifecycleNext
    <2>4. CASE runStatus' # "COMPLETED"
      <3>1. Lifecycle!ReportUnfinished
        BY <1>2, <2>1, <2>4 DEF Lifecycle!ReportUnfinished, DoneOps
      <3> QED
        BY <3>1 DEF Lifecycle!LifecycleNext
    <2> QED
      BY <2>2, <2>3, <2>4
  <1>3. ASSUME NEW s \in ApprovalState, SetApproval(s)
        PROVE  [Lifecycle!LifecycleNext]_(Lifecycle!lifecycleVars)
    <2>1. UNCHANGED <<runStatus, op>> /\ DoneOps' = DoneOps
      BY <1>3 DEF SetApproval, DoneOps
    <2>2. CASE approval' = approval
      BY <1>2, <2>1, <2>2
    <2>3. CASE approval' # approval
      <3>1. s \in {"APPROVED", "REJECTED"} /\ approval = "PENDING"
        BY <1>3, <2>3 DEF SetApproval, ValidApprovalTransition, ApprovalState
      <3>2. Lifecycle!Decide(s)
        BY <1>3, <2>1, <3>1 DEF SetApproval, Lifecycle!Decide, DoneOps
      <3> QED
        BY <3>1, <3>2 DEF Lifecycle!LifecycleNext
    <2> QED
      BY <2>2, <2>3
  <1>4. ASSUME NEW o \in Ops, NEW s \in OperationState, NEW proof \in BOOLEAN,
               TransitionOperation(o, s, proof)
        PROVE  [Lifecycle!LifecycleNext]_(Lifecycle!lifecycleVars)
    <2>1. /\ approval' = approval
          /\ (runStatus' = "COMPLETED") = (runStatus = "COMPLETED")
          /\ \A q \in Ops : q # o => op'[q] = op[q]
          /\ op[o].state \in Done => op'[o] = op[o]
      BY <1>1, <1>4 DEF TransitionOperation, Transitioned, Restartable
    <2>2. CASE op[o].state \notin Done /\ op'[o].state \in Done
      <3>1. approval = "APPROVED" /\ Warranted(o, op)
        BY <2>2, NewlyDoneIsWarranted
      <3>2. Prereq[o] \subseteq DoneOps
        BY <3>1, PlanFacts DEF Warranted, DoneOps
      <3>3. DoneOps' = DoneOps \cup {o}
        BY <2>1, <2>2 DEF DoneOps
      <3>4. Lifecycle!Complete(o)
        BY <2>1, <3>1, <3>2, <3>3 DEF Lifecycle!Complete, DoneOps
      <3> QED
        BY <3>4 DEF Lifecycle!LifecycleNext
    <2>3. CASE ~(op[o].state \notin Done /\ op'[o].state \in Done)
      <3>1. DoneOps' = DoneOps
        BY <2>1, <2>3 DEF DoneOps
      <3> QED
        BY <2>1, <3>1 DEF Lifecycle!lifecycleVars, DoneOps
    <2> QED
      BY <2>2, <2>3
  <1>5. ASSUME RecoverRunningOperations
        PROVE  [Lifecycle!LifecycleNext]_(Lifecycle!lifecycleVars)
    <2>1. approval' = approval /\ DoneOps' = DoneOps
      BY <1>1, <1>5 DEF RecoverRunningOperations, DoneOps, Done, JournalOperation
    <2>2. CASE runStatus' = runStatus
      BY <2>1, <2>2 DEF Lifecycle!lifecycleVars, DoneOps
    <2>3. CASE runStatus' # runStatus
      <3>1. runStatus' # "COMPLETED"
        BY <1>5, <2>3 DEF RecoverRunningOperations
      <3>2. Lifecycle!ReportUnfinished
        BY <2>1, <3>1 DEF Lifecycle!ReportUnfinished, DoneOps
      <3> QED
        BY <3>2 DEF Lifecycle!LifecycleNext
    <2> QED
      BY <2>2, <2>3
  <1>6. ASSUME \/ \E s \in RunStatus : SetRunStatus(s)
               \/ \E a \in ActionId : AddManualAction(a)
               \/ \E a \in ActionId, s \in ActionState : SetManualActionState(a, s)
               \/ UNCHANGED journalVars
        PROVE  UNCHANGED <<approval, op>>
    BY <1>6 DEF SetRunStatus, AddManualAction, SetManualActionState, journalVars
  <1> QED
    BY <1>2, <1>3, <1>4, <1>5, <1>6, StepIsJournalled DEF JournalNext

(* The restore promise, for every plan: work happens only in an approved   *)
(* run, in prerequisite order, is never undone, and the run is reported    *)
(* COMPLETED only when all of it is done, through crashes, resumes and     *)
(* concurrent executors (execute_with_progress over the journal).          *)
THEOREM ExecutorImplementsLifecycle == Spec => ImplementsLifecycle
  <1>1. Init => Lifecycle!LifecycleInit
    <2> SUFFICES ASSUME Init PROVE Lifecycle!LifecycleInit
      OBVIOUS
    <2>1. DoneOps = {}
      BY DEF Init, JournalInit, DoneOps, Done
    <2> QED
      BY <2>1 DEF Init, JournalInit, Lifecycle!LifecycleInit, DoneOps
  <1>2. ExecutorInv /\ ExecutorInv' /\ [Next]_vars
          => [Lifecycle!LifecycleNext]_(Lifecycle!lifecycleVars)
    BY StepIsLifecycleStep
  <1> QED
    BY <1>1, <1>2, InvHolds, PTL DEF Spec, ImplementsLifecycle, Lifecycle!LifecycleSpec

-----------------------------------------------------------------------------
(***************************************************************************)
(* What the executor does to the target and asks of the user, proved for   *)
(* every plan.                                                             *)
(*                                                                         *)
(* The argument.  A process changes the target only between marking an     *)
(* attempt and recording its outcome, so the changes made so far and the   *)
(* processes that may still make one are together at most the journalled   *)
(* attempts (EffectsInv); this holds for any number of processes.          *)
(*                                                                         *)
(* The other properties are about one executor at a time, with the user    *)
(* and other commands acting on the journal beside it.  Then the snapshot  *)
(* of the process says of every row what the journal says, except that     *)
(* another command's open may have interrupted the attempt it is running   *)
(* (Faithful), and its decisions are therefore decisions on the journal.   *)
(***************************************************************************)
-----------------------------------------------------------------------------
(* How a process's record changes in a step.                               *)

(* The record a step gives to a process is the one it has afterwards.      *)
LEMMA BecomesIs ==
    ASSUME ExecutorInv, NEW p \in Procs, NEW r, Becomes(p, r)
    PROVE  ex'[p] = r /\ \A q \in Procs : q # p => ex'[q] = ex[q]
  BY DEF Becomes, ExecutorInv, ExecutorTypeOK

(* The label and position a process has after each kind of move.           *)
LEMMA LabelAfter ==
    ASSUME ExecutorInv, NEW p \in Procs
    PROVE  /\ \A label : Goto(p, label) => ex'[p].pc = label
           /\ \A label, state, proof, then :
                Write(p, label, state, proof, then) => ex'[p].pc = label
           /\ \A w : Advance(p, w) => ex'[p].pc = "loop"
           /\ Return(p) => ex'[p].pc = "idle" /\ ex'[p].refused = ex[p].refused
           /\ Leave(p, TRUE) => ex'[p].pc = "idle" /\ ex'[p].refused = TRUE
           /\ PersistFailure(p) \/ CancelledOperation(p) => ex'[p].pc = "record"
           /\ CancelledReport(p) => ex'[p].pc = "status"
  <1>1. ex[p] \in Process /\ ex \in [Procs -> Process]
    BY DEF ExecutorInv, ExecutorTypeOK
  <1>2. ASSUME NEW label, Goto(p, label) PROVE ex'[p].pc = label
    BY <1>1, <1>2 DEF Goto, Becomes, Process
  <1>3. ASSUME NEW label, NEW state, NEW proof, NEW then,
               Write(p, label, state, proof, then)
        PROVE  ex'[p].pc = label
    BY <1>1, <1>3 DEF Write, Becomes, Process
  <1>4. ASSUME NEW w, Advance(p, w) PROVE ex'[p].pc = "loop"
    BY <1>1, <1>4 DEF Advance, Becomes, Process
  <1>5. ASSUME NEW b, Leave(p, b) PROVE ex'[p].pc = "idle" /\ ex'[p].refused = b
    BY <1>1, <1>5 DEF Leave, Becomes, At
  <1> QED
    BY <1>2, <1>3, <1>4, <1>5 DEF Return, PersistFailure, CancelledOperation, CancelledReport

(* A process is at its handler only from mark_operation_running on.        *)
LEMMA EntersRun ==
    ASSUME ExecutorInv, NEW p \in Procs, ProcessMoves(p), ex'[p].pc = "run"
    PROVE  \/ MarkRunning(p) /\ CanTransition(Cur(p), "RUNNING")
           \/ Cancel(p)
  <1>1. ex[p] \in Process /\ ex \in [Procs -> Process]
    BY DEF ExecutorInv, ExecutorTypeOK
  <1>2. ~(OpenJournal(p) \/ Quit(p) \/ Crash(p) \/ Launch(p) \/ Validate(p))
    <2>1. CASE OpenJournal(p)
      BY <2>1, LabelAfter DEF OpenJournal
    <2>2. CASE Quit(p) \/ Crash(p)
      BY <1>1, <2>2 DEF Quit, Crash, Becomes, At
    <2>3. CASE Launch(p)
      BY <1>1, <2>3 DEF Launch, Becomes, At
    <2>4. CASE Validate(p)
      <3>1. CASE Return(p)
        BY <3>1, LabelAfter
      <3>2. CASE Becomes(p, [ex[p] EXCEPT !.pc = "loop", !.snap = op])
        BY <1>1, <3>2 DEF Becomes, Process
      <3> QED
        BY <2>4, <3>1, <3>2 DEF Validate
    <2> QED
      BY <2>1, <2>2, <2>3, <2>4
  <1>3. ~Visit(p)
    BY LabelAfter
       DEF Visit, VisitDone, VisitPendingBlocker, VisitSkippedBlocker,
           VisitWaitingPrerequisite, VisitUnmetPrerequisite, VisitCancelled,
           VisitPreconditionFails, VisitForbiddenRetry, VisitReady
  <1>4. ~Run(p)
    BY LabelAfter
       DEF Run, RunCancelled, RunVerify, RunReboot, RunManual, RunManualPending,
           RunCompletes, RunSkips, RunBlocks, RunFaults
  <1>5. ~(CompleteAction(p) \/ Ready(p) \/ Probe(p) \/ ProbeError(p) \/ JournalFails(p))
    BY LabelAfter DEF CompleteAction, ActionRefused, Ready, Probe, ProbeError, JournalFails
  <1>6. ~(QueueBlocker(p) \/ SetStatus(p) \/ Finish(p))
    BY LabelAfter DEF QueueBlocker, SetStatus, Finish
  <1>7. ~Record(p)
    <2> SUFFICES ASSUME Record(p) PROVE FALSE
      OBVIOUS
    <2> DEFINE out == ex[p].out
               kept == Remember(p, Transitioned(Cur(p), out.state, out.proof))
    <2>1. kept \in [pc : {ex[p].pc}, idx : {ex[p].idx}, snap : {kept.snap},
                    waiting : {ex[p].waiting}, cancel : {ex[p].cancel},
                    fresh : {ex[p].fresh}, refused : {ex[p].refused}, out : {out}]
      BY <1>1 DEF Remember, Process
    <2>2. CASE Becomes(p, [kept EXCEPT !.pc = "status"])
      <3> HIDE DEF kept
      <3> QED
        BY <1>1, <2>1, <2>2 DEF Becomes
    <2>3. CASE Becomes(p, [kept EXCEPT !.pc = "loop", !.idx = @ + 1, !.out = NoOutcome,
                             !.waiting = @ \/ out.state = "WAITING_FOR_USER"])
      <3> HIDE DEF kept
      <3> QED
        BY <1>1, <2>1, <2>3 DEF Becomes
    <2> QED
      BY <2>2, <2>3, LabelAfter DEF Record
  <1>8. MarkRunning(p) => CanTransition(Cur(p), "RUNNING")
    BY LabelAfter DEF MarkRunning
  <1> QED
    BY <1>2, <1>3, <1>4, <1>5, <1>6, <1>7, <1>8 DEF ProcessMoves, Execute
-----------------------------------------------------------------------------
(* Effects and attempts, for any number of processes.                      *)

(* The processes that may still change the target for operation o.         *)
Runners(o) == {p \in Procs : ex[p].pc = "run" /\ Cur(p) = o}

EffectsInv ==
    \A o \in Ops : /\ IsFiniteSet(Runners(o))
                   /\ effects[o] + Cardinality(Runners(o)) <= op[o].attempt

(* No transaction of the journal takes an attempt back.                    *)
LEMMA AttemptsGrow ==
    ASSUME JournalTypeOK, [JournalNext]_journalVars, NEW o \in Ops
    PROVE  op[o].attempt <= op'[o].attempt
  <1>1. op \in [Ops -> JournalOperation] /\ op[o].attempt \in Nat
    BY MaxAttemptAssumption DEF JournalTypeOK, JournalOperation
  <1>2. CASE op' = op
    BY <1>1, <1>2
  <1>3. CASE \E q \in Ops, s \in OperationState, proof \in BOOLEAN :
                TransitionOperation(q, s, proof)
    BY <1>1, <1>3 DEF TransitionOperation, Transitioned
  <1>4. CASE RecoverRunningOperations
    BY <1>1, <1>4 DEF RecoverRunningOperations, JournalOperation
  <1> QED
    BY <1>2, <1>3, <1>4
       DEF JournalNext, journalVars, SetApproval, SetRunStatus, AddManualAction,
           SetManualActionState

(* Only a handler changes the target, once, on its way to the record.      *)
LEMMA EffectsStep ==
    ASSUME ExecutorInv, NEW p \in Procs, ProcessMoves(p)
    PROVE  \/ UNCHANGED effects
           \/ /\ Mutates(p) /\ Apply(Cur(p)) /\ UNCHANGED journalVars
              /\ ex'[p].pc \in {"queue", "record"}
  <1>1. CASE RunCompletes(p) \/ RunBlocks(p)
    BY <1>1, LabelAfter DEF RunCompletes, RunBlocks
  <1>2. CASE RunFaults(p)
    BY <1>2, LabelAfter DEF RunFaults
  <1>3. CASE \/ VisitDone(p) \/ VisitPendingBlocker(p) \/ VisitSkippedBlocker(p)
             \/ VisitWaitingPrerequisite(p) \/ VisitUnmetPrerequisite(p)
             \/ VisitCancelled(p) \/ VisitForbiddenRetry(p) \/ VisitReady(p)
             \/ VisitPreconditionFails(p)
    BY <1>3
       DEF VisitDone, VisitPendingBlocker, VisitSkippedBlocker,
           VisitWaitingPrerequisite, VisitUnmetPrerequisite, VisitCancelled,
           VisitForbiddenRetry, VisitReady, VisitPreconditionFails, world
  <1>4. CASE \/ RunCancelled(p) \/ RunVerify(p) \/ RunReboot(p) \/ RunManual(p)
             \/ RunSkips(p) \/ RunManualPending(p)
    BY <1>4 DEF RunCancelled, RunVerify, RunReboot, RunManual, RunSkips,
                RunManualPending, world
  <1>5. CASE \/ OpenJournal(p) \/ Quit(p) \/ Crash(p) \/ Launch(p) \/ Cancel(p)
             \/ Validate(p) \/ CompleteAction(p) \/ Ready(p) \/ Probe(p)
             \/ ProbeError(p) \/ MarkRunning(p) \/ QueueBlocker(p) \/ Record(p)
             \/ SetStatus(p) \/ Finish(p) \/ JournalFails(p)
    BY <1>5 DEF OpenJournal, Quit, Crash, Launch, Cancel, Validate, CompleteAction,
                Ready, Probe, ProbeError, MarkRunning, QueueBlocker, Record,
                SetStatus, Finish, JournalFails, world
  <1> QED
    BY <1>1, <1>2, <1>3, <1>4, <1>5 DEF ProcessMoves, Execute, Visit, Run

(* A process that starts an operation's attempt, and what it leaves alone. *)
LEMMA MarkedRow ==
    ASSUME ExecutorInv, NEW p \in Procs, MarkRunning(p),
           CanTransition(Cur(p), "RUNNING")
    PROVE  /\ Cur(p) \in Ops
           /\ op'[Cur(p)] = [state |-> "RUNNING", attempt |-> op[Cur(p)].attempt + 1,
                             proof |-> FALSE]
           /\ \A o \in Ops : o # Cur(p) => op'[o] = op[o]
           /\ ex'[p] = [ex[p] EXCEPT !.pc = "run", !.snap[Cur(p)] = op'[Cur(p)]]
           /\ UNCHANGED <<approval, action, effects>>
  <1>1. /\ ex[p] \in Process /\ Cur(p) \in Ops /\ op \in [Ops -> JournalOperation]
    BY ProcessFacts DEF MarkRunning
  <1>2. TransitionOperation(Cur(p), "RUNNING", FALSE)
    BY DEF MarkRunning
  <1>3. op[Cur(p)].state \notin Done
    BY DEF CanTransition
  <1>4. /\ Transitioned(Cur(p), "RUNNING", FALSE)
             = [state |-> "RUNNING", attempt |-> op[Cur(p)].attempt + 1, proof |-> FALSE]
    BY <1>3 DEF Transitioned
  <1>5. /\ op'[Cur(p)] = Transitioned(Cur(p), "RUNNING", FALSE)
        /\ \A o \in Ops : o # Cur(p) => op'[o] = op[o]
        /\ UNCHANGED <<approval, action>>
    BY <1>1, <1>2 DEF TransitionOperation
  <1>6. ex'[p] = [Remember(p, op'[Cur(p)]) EXCEPT !.pc = "run"]
    BY <1>5, BecomesIs DEF MarkRunning
  <1>7. ex'[p] = [ex[p] EXCEPT !.pc = "run", !.snap[Cur(p)] = op'[Cur(p)]]
    BY <1>1, <1>6 DEF Remember, Process
  <1> QED
    BY <1>1, <1>4, <1>5, <1>7 DEF MarkRunning, world

(* The bound is kept: an attempt is counted before its handler runs.       *)
LEMMA EffectsInductive ==
    ASSUME ExecutorInv, EffectsInv, [Next]_vars PROVE EffectsInv'
  <1>1. /\ JournalTypeOK /\ op \in [Ops -> JournalOperation]
        /\ effects \in [Ops -> Nat] /\ ex \in [Procs -> Process]
        /\ \A o \in Ops : op[o].attempt \in Nat
    BY MaxAttemptAssumption
       DEF ExecutorInv, ExecutorTypeOK, JournalTypeOK, JournalOperation
  <1>2. \A o \in Ops : op[o].attempt <= op'[o].attempt /\ op'[o].attempt \in Nat
    <2>1. JournalTypeOK'
      BY InvIsInductive DEF ExecutorInv, ExecutorTypeOK
    <2> QED
      BY <1>1, <2>1, StepIsJournalled, AttemptsGrow, MaxAttemptAssumption
         DEF JournalTypeOK, JournalOperation
  <1>3. CASE ex' = ex /\ effects' = effects
    <2>1. \A o \in Ops : Runners(o)' = Runners(o)
      BY <1>3 DEF Runners, Cur
    <2>2. \A o \in Ops : Cardinality(Runners(o)) \in Nat
      BY FS_CardinalityType DEF EffectsInv
    <2> QED
      BY <1>1, <1>2, <1>3, <2>1, <2>2 DEF EffectsInv
  <1>4. ASSUME NEW p \in Procs, ProcessMoves(p), NEW o \in Ops
        PROVE  /\ IsFiniteSet(Runners(o)')
               /\ effects'[o] + Cardinality(Runners(o)') <= op'[o].attempt
    <2> DEFINE R == Runners(o)
    <2>1. IsFiniteSet(R) /\ effects[o] + Cardinality(R) <= op[o].attempt
      BY DEF EffectsInv
    <2>2. /\ IsFiniteSet(R \ {p}) /\ IsFiniteSet(R \cup {p})
          /\ Cardinality(R) \in Nat /\ Cardinality(R \ {p}) \in Nat
          /\ Cardinality(R \ {p}) = IF p \in R THEN Cardinality(R) - 1 ELSE Cardinality(R)
          /\ Cardinality(R \cup {p}) = IF p \in R THEN Cardinality(R) ELSE Cardinality(R) + 1
      BY <2>1, FS_RemoveElement, FS_AddElement, FS_CardinalityType
    <2>3. \A q \in Procs : q # p => ex'[q] = ex[q]
      <3>1. ProcessStep(p)
        BY <1>4, ProcessMovesStep
      <3> QED
        BY <1>1, <3>1 DEF ProcessStep
    <2>4. p \in R <=> ex[p].pc = "run" /\ Cur(p) = o
      BY DEF Runners
    <2>5. CASE ex'[p].pc # "run"
      <3>1. Runners(o)' = R \ {p}
        BY <2>3, <2>5 DEF Runners, Cur
      <3>2. CASE UNCHANGED effects
        BY <1>1, <1>2, <2>1, <2>2, <3>1, <3>2
      <3>3. CASE Mutates(p) /\ Apply(Cur(p))
        <4>1. effects'[o] = IF o = Cur(p) THEN effects[o] + 1 ELSE effects[o]
          BY <1>1, <3>3 DEF Apply
        <4>2. o = Cur(p) => p \in R
          BY <2>4, <3>3 DEF Mutates, Running
        <4> HIDE DEF R
        <4> QED
          BY <1>1, <1>2, <2>1, <2>2, <3>1, <4>1, <4>2
      <3> QED
        BY <1>4, <3>2, <3>3, EffectsStep
    <2>6. CASE ex'[p].pc = "run" /\ Cancel(p)
      <3>1. ex'[p].pc = ex[p].pc /\ ex'[p].idx = ex[p].idx
        BY <1>1, <2>6 DEF Cancel, Becomes, Process
      <3>2. Runners(o)' = R
        BY <2>3, <3>1 DEF Runners, Cur
      <3>3. effects' = effects
        BY <2>6 DEF Cancel
      <3> QED
        BY <1>1, <1>2, <2>1, <2>2, <3>2, <3>3
    <2>7. CASE MarkRunning(p) /\ CanTransition(Cur(p), "RUNNING")
      <3>1. ex[p].pc # "run" /\ effects' = effects
        BY <2>7, MarkedRow DEF MarkRunning
      <3>2. ex'[p].pc = "run" /\ ex'[p].idx = ex[p].idx
        BY <1>1, <2>7, MarkedRow, ZenonT(40) DEF Process
      <3>3. Runners(o)' = IF o = Cur(p) THEN R \cup {p} ELSE R
        BY <2>3, <3>1, <3>2 DEF Runners, Cur
      <3>4. op'[Cur(p)].attempt = op[Cur(p)].attempt + 1
        <4>1. op'[Cur(p)] = [state |-> "RUNNING", attempt |-> op[Cur(p)].attempt + 1,
                             proof |-> FALSE]
          BY <2>7, MarkedRow
        <4> QED
          BY <4>1
      <3> HIDE DEF R
      <3> QED
        BY <1>1, <1>2, <2>1, <2>2, <3>1, <3>3, <3>4
    <2> QED
      BY <1>4, <2>5, <2>6, <2>7, EntersRun
  <1>5. CASE UserMoves
    BY <1>3, <1>5, UserMovesStep DEF world
  <1>6. CASE UNCHANGED vars
    BY <1>3, <1>6 DEF vars
  <1>7. CASE \E p \in Procs : ProcessMoves(p)
    BY <1>4, <1>7 DEF EffectsInv
  <1> QED
    BY <1>5, <1>6, <1>7 DEF Next, ProcessMoves, UserMoves

(* Nothing runs in a freshly created run.                                  *)
LEMMA EffectsInit == Init => EffectsInv
  <1> SUFFICES ASSUME Init PROVE EffectsInv
    OBVIOUS
  <1>1. IsFiniteSet({}) /\ Cardinality({}) = 0
    BY FS_EmptySet
  <1> SUFFICES ASSUME NEW o \in Ops
               PROVE  /\ IsFiniteSet(Runners(o))
                      /\ effects[o] + Cardinality(Runners(o)) <= op[o].attempt
    BY DEF EffectsInv
  <1>2. Runners(o) = {}
    BY DEF Init, At, Runners
  <1>3. effects[o] = 0 /\ op[o].attempt = 0
    BY DEF Init, JournalInit
  <1>4. Cardinality(Runners(o)) = 0
    BY <1>1, <1>2
  <1> QED
    BY <1>1, <1>2, <1>3, <1>4

(* The bound holds in every reachable state.                               *)
LEMMA EffectsHold == Spec => [](ExecutorInv /\ EffectsInv)
  <1>1. ExecutorInv /\ EffectsInv /\ [Next]_vars => EffectsInv'
    BY EffectsInductive
  <1> QED
    BY <1>1, InvHolds, EffectsInit, PTL DEF Spec

(* The target is changed only under a journalled attempt of an approved    *)
(* run, however many processes execute it and wherever they crash:         *)
(* mark_operation_running commits before the handler executes.             *)
THEOREM EffectsAreAlwaysJournalled == Spec => []EffectsAreJournalled
  <1>1. ExecutorInv /\ EffectsInv /\ StartedIsApproved => EffectsAreJournalled
    <2> SUFFICES ASSUME ExecutorInv, EffectsInv, StartedIsApproved, NEW o \in Ops
                 PROVE  /\ effects[o] <= op[o].attempt
                        /\ effects[o] > 0 => approval = "APPROVED"
      BY DEF EffectsAreJournalled
    <2>1. Cardinality(Runners(o)) \in Nat
      BY FS_CardinalityType DEF EffectsInv
    <2>2. effects[o] \in Nat /\ op[o].attempt \in Nat
      BY MaxAttemptAssumption
         DEF ExecutorInv, ExecutorTypeOK, JournalTypeOK, JournalOperation
    <2>3. effects[o] <= op[o].attempt
      BY <2>1, <2>2 DEF EffectsInv
    <2> QED
      BY <2>2, <2>3 DEF StartedIsApproved
  <1>2. Spec => []StartedIsApproved
    BY ExecutorUsesJournal, StartedIsAlwaysApproved, PTL
  <1> QED
    BY <1>1, <1>2, EffectsHold, PTL

-----------------------------------------------------------------------------
(* One executor at a time.                                                 *)

(* Nobody else executes the run; the user and other commands may still act *)
(* on its journal.                                                         *)
OneExecutor == \A p, q \in Procs : p = q

(* What the record r of the executor may rely on, the journal having the   *)
(* status st, the rows and the actions acts.                               *)
BlockerOf(r) == <<OpSeq[r.idx], r.snap[OpSeq[r.idx]].attempt>>

(* The snapshot agrees with the journal, but for an attempt of its own     *)
(* that another command's open has interrupted.                            *)
Agrees(snap, rows) ==
    \A o \in Ops : /\ rows[o].attempt = snap[o].attempt
                   /\ \/ rows[o].state = snap[o].state
                      \/ snap[o].state = "RUNNING" /\ rows[o].state = "INTERRUPTED"
Faithful(r, rows) == InLoop(r) => Agrees(r.snap, rows)

(* The labels between an attempt's start and the record of its outcome.    *)
Holding(r) ==
    \/ r.pc \in {"run", "queue", "record"}
    \/ r.pc = "complete" /\ OpSeq[r.idx] \in Manual

(* As long as the journal refused nothing, a RUNNING row is the operation  *)
(* the process is working on.                                              *)
Owned(r, st, rows) ==
    ~r.refused =>
        /\ r.pc \in {"idle", "validate"}
              => st # "RUNNING" /\ \A o \in Ops : rows[o].state # "RUNNING"
        /\ InLoop(r) => \A o \in Ops : r.snap[o].state = "RUNNING"
                                        => Holding(r) /\ o = OpSeq[r.idx]

(* The operation it is working on is not verified yet.                     *)
Unverified(r, rows) ==
    r.pc \in {"complete", "ready", "probe", "mark", "run", "queue", "record"}
        => rows[OpSeq[r.idx]].state \notin Done

(* A wait is recorded after its action was queued.                         *)
Queued(r, acts) ==
    (/\ r.pc = "record" /\ r.out.state = "WAITING_FOR_USER"
     /\ OpSeq[r.idx] \notin Manual) => BlockerOf(r) \in DOMAIN acts

(* An attempt may start: a blocked operation's action was acknowledged and *)
(* consumed, and non-idempotent work was never started before.             *)
Consented(r, acts) ==
    (OpSeq[r.idx] \notin Manual /\ r.snap[OpSeq[r.idx]].state = "WAITING_FOR_USER")
        => BlockerOf(r) \in DOMAIN acts /\ acts[BlockerOf(r)] = "COMPLETED"
Unstarted(r) ==
    OpSeq[r.idx] \in NonIdempotent => r.snap[OpSeq[r.idx]].attempt = 0
Allowed(r, acts) ==
    /\ r.pc \in {"ready", "probe", "mark"} => Consented(r, acts) /\ Unstarted(r)
    /\ r.pc = "complete" /\ OpSeq[r.idx] \notin Manual => Unstarted(r)

FirstTime(r, eff) ==
    r.pc = "run" /\ OpSeq[r.idx] \in NonIdempotent => eff[OpSeq[r.idx]] = 0

Alone(r, st, rows, acts, eff) ==
    /\ Faithful(r, rows)
    /\ Owned(r, st, rows)
    /\ Unverified(r, rows)
    /\ Queued(r, acts)
    /\ Allowed(r, acts)
    /\ FirstTime(r, eff)

AloneInv ==
    /\ BlockedHasAction
    /\ NonIdempotentOnce
    /\ \A p \in Procs : Alone(ex[p], runStatus, op, action, effects)

(* Outside the loop only the journal's own state matters.                  *)
LEMMA OutsideAlone ==
    ASSUME NEW r, NEW st, NEW rows, NEW acts, NEW eff,
           r.pc \in {"down", "idle", "validate"},
           r.pc # "down" /\ ~r.refused
               => st # "RUNNING" /\ \A o \in Ops : rows[o].state # "RUNNING"
    PROVE  Alone(r, st, rows, acts, eff)
  BY DEF Alone, Faithful, Owned, Unverified, Queued, Allowed, FirstTime, InLoop

(* Going on towards an attempt.                                            *)
LEMMA GotoAlone ==
    ASSUME NEW r \in Process, NEW st, NEW rows, NEW acts, NEW eff,
           Alone(r, st, rows, acts, eff), InLoop(r),
           NEW label \in {"complete", "ready", "probe", "mark"},
           Holding(r) => label = "complete" /\ OpSeq[r.idx] \in Manual,
           rows[OpSeq[r.idx]].state \notin Done,
           label # "complete" => Consented(r, acts) /\ Unstarted(r),
           OpSeq[r.idx] \notin Manual => Unstarted(r)
    PROVE  Alone([r EXCEPT !.pc = label], st, rows, acts, eff)
  <1> DEFINE n == [r EXCEPT !.pc = label]
  <1>1. /\ n.pc = label /\ n.idx = r.idx /\ n.snap = r.snap /\ n.out = r.out
        /\ n.refused = r.refused
    BY DEF Process
  <1> HIDE DEF n
  <1>2. BlockerOf(n) = BlockerOf(r) /\ InLoop(n) /\ (Holding(r) => Holding(n))
    BY <1>1 DEF BlockerOf, InLoop, Holding
  <1>3. Faithful(n, rows) /\ Owned(n, st, rows)
    BY <1>1, <1>2 DEF Alone, Faithful, Owned
  <1>4. Unverified(n, rows) /\ Queued(n, acts) /\ FirstTime(n, eff)
    BY <1>1 DEF Unverified, Queued, FirstTime
  <1>5. Allowed(n, acts)
    BY <1>1, <1>2 DEF Allowed, Consented, Unstarted
  <1> QED
    BY <1>3, <1>4, <1>5 DEF Alone, n

(* Preparing a write.                                                      *)
LEMMA WriteAlone ==
    ASSUME NEW r \in Process, NEW st, NEW rows, NEW acts, NEW eff, NEW eff2,
           Alone(r, st, rows, acts, eff), InLoop(r),
           NEW label \in {"queue", "record", "status"}, NEW out,
           label = "status" => ~Holding(r),
           label # "status" => rows[OpSeq[r.idx]].state \notin Done,
           label = "record" /\ out.state = "WAITING_FOR_USER" => OpSeq[r.idx] \in Manual
    PROVE  Alone([r EXCEPT !.pc = label, !.out = out], st, rows, acts, eff2)
  <1> DEFINE n == [r EXCEPT !.pc = label, !.out = out]
  <1>1. /\ n.pc = label /\ n.idx = r.idx /\ n.snap = r.snap /\ n.out = out
        /\ n.refused = r.refused
    BY DEF Process
  <1> HIDE DEF n
  <1>2. InLoop(n) /\ (Holding(r) => Holding(n))
    BY <1>1 DEF InLoop, Holding
  <1>3. Faithful(n, rows) /\ Owned(n, st, rows)
    BY <1>1, <1>2 DEF Alone, Faithful, Owned
  <1>4. Unverified(n, rows) /\ Queued(n, acts) /\ FirstTime(n, eff2) /\ Allowed(n, acts)
    BY <1>1 DEF Unverified, Queued, FirstTime, Allowed
  <1> QED
    BY <1>3, <1>4 DEF Alone, n

(* Turning to the next operation.                                          *)
LEMMA AdvanceAlone ==
    ASSUME NEW r \in Process, NEW st, NEW rows, NEW acts, NEW eff,
           Alone(r, st, rows, acts, eff), InLoop(r), ~Holding(r), NEW w
    PROVE  Alone([r EXCEPT !.pc = "loop", !.idx = @ + 1, !.out = NoOutcome,
                           !.waiting = @ \/ w], st, rows, acts, eff)
  <1> DEFINE n == [r EXCEPT !.pc = "loop", !.idx = @ + 1, !.out = NoOutcome,
                            !.waiting = @ \/ w]
  <1>1. n.pc = "loop" /\ n.snap = r.snap /\ n.refused = r.refused
    BY DEF Process
  <1> HIDE DEF n
  <1>2. Faithful(n, rows) /\ Owned(n, st, rows)
    BY <1>1 DEF Alone, Faithful, Owned, InLoop
  <1>3. Unverified(n, rows) /\ Queued(n, acts) /\ FirstTime(n, eff) /\ Allowed(n, acts)
    BY <1>1 DEF Unverified, Queued, FirstTime, Allowed
  <1> QED
    BY <1>2, <1>3 DEF Alone, n

(* Actions are never removed and a consumed one stays consumed, so what a  *)
(* process has concluded from the queue stays true.                        *)
LEMMA ActionsAlone ==
    ASSUME NEW r, NEW st, NEW rows, NEW acts, NEW eff, NEW acts2,
           Alone(r, st, rows, acts, eff),
           \A a \in DOMAIN acts : /\ a \in DOMAIN acts2
                                  /\ acts[a] = "COMPLETED" => acts2[a] = "COMPLETED"
    PROVE  Alone(r, st, rows, acts2, eff)
  BY DEF Alone, Queued, Allowed, Consented

(* Another command's open changes RUNNING rows only.                       *)
LEMMA RecoverAlone ==
    ASSUME ExecutorInv, RecoverRunningOperations, NEW r \in Process, NEW eff,
           NEW acts, Alone(r, runStatus, op, acts, eff),
           InLoop(r) /\ r.pc # "loop" => OpSeq[r.idx] \in Ops
    PROVE  Alone(r, runStatus', op', acts, eff)
  <1>1. op \in [Ops -> JournalOperation]
    BY DEF ExecutorInv, ExecutorTypeOK, JournalTypeOK
  <1>2. \A o \in Ops : /\ op'[o].attempt = op[o].attempt
                       /\ \/ op'[o].state = op[o].state /\ op[o].state # "RUNNING"
                          \/ op[o].state = "RUNNING" /\ op'[o].state = "INTERRUPTED"
    BY <1>1 DEF RecoverRunningOperations, JournalOperation
  <1>3. Faithful(r, op')
    BY <1>2 DEF Alone, Faithful, Agrees
  <1>4. runStatus' # "RUNNING"
    BY DEF RecoverRunningOperations
  <1>5. Owned(r, runStatus', op')
    BY <1>2, <1>4 DEF Alone, Owned
  <1>6. Unverified(r, op')
    BY <1>2 DEF Alone, Unverified, Done, InLoop
  <1> QED
    BY <1>3, <1>5, <1>6 DEF Alone

-----------------------------------------------------------------------------
(* The steps of the one executor: its record and the journal after them    *)
(* are again such that it may rely on them.                                *)

AloneStep(p) == Alone(ex'[p], runStatus', op', action', effects')

(* Preparing a write,                                                      *)
LEMMA WriteAloneStep ==
    ASSUME ExecutorInv, AloneInv, NEW p \in Procs, InLoop(ex[p]), UNCHANGED journalVars,
           NEW label \in {"queue", "record", "status"},
           NEW state, NEW proof, NEW then, Write(p, label, state, proof, then),
           label = "status" => ~Holding(ex[p]),
           label # "status" => op[Cur(p)].state \notin Done,
           label = "record" /\ state = "WAITING_FOR_USER" => Cur(p) \in Manual
    PROVE  AloneStep(p)
  <1> DEFINE out == [state |-> state, proof |-> proof, then |-> then]
             n == [ex[p] EXCEPT !.pc = label, !.out = out]
  <1>1. ex[p] \in Process /\ Alone(ex[p], runStatus, op, action, effects)
    BY ProcessFacts DEF AloneInv
  <1>2. Alone(n, runStatus, op, action, effects')
    <2>1. out.state = state
      OBVIOUS
    <2> HIDE DEF out
    <2> QED
      BY <1>1, <2>1, WriteAlone DEF Cur
  <1>3. ex'[p] = n
    BY BecomesIs DEF Write
  <1> QED
    BY <1>2, <1>3 DEF AloneStep, journalVars

(* a failure or a cancellation among them,                                 *)
LEMMA FailureAloneStep ==
    ASSUME ExecutorInv, AloneInv, NEW p \in Procs, InLoop(ex[p]), UNCHANGED journalVars,
           op[Cur(p)].state \notin Done,
           \/ PersistFailure(p) \/ CancelledOperation(p)
           \/ CancelledReport(p) /\ ~Holding(ex[p])
    PROVE  AloneStep(p)
  BY WriteAloneStep DEF PersistFailure, CancelledOperation, CancelledReport

(* going on towards an attempt,                                            *)
LEMMA GotoAloneStep ==
    ASSUME ExecutorInv, AloneInv, NEW p \in Procs, InLoop(ex[p]),
           UNCHANGED <<journalVars, effects>>,
           NEW label \in {"complete", "ready", "probe", "mark"}, Goto(p, label),
           Holding(ex[p]) => label = "complete" /\ Cur(p) \in Manual,
           op[Cur(p)].state \notin Done,
           label # "complete" => Consented(ex[p], action) /\ Unstarted(ex[p]),
           Cur(p) \notin Manual => Unstarted(ex[p])
    PROVE  AloneStep(p)
  <1> DEFINE n == [ex[p] EXCEPT !.pc = label]
  <1>1. ex[p] \in Process /\ Alone(ex[p], runStatus, op, action, effects)
    BY ProcessFacts DEF AloneInv
  <1>2. Alone(n, runStatus, op, action, effects)
    BY <1>1, GotoAlone DEF Cur
  <1>3. ex'[p] = n
    BY BecomesIs DEF Goto
  <1> QED
    BY <1>2, <1>3 DEF AloneStep, journalVars

(* and turning to the next operation.                                      *)
LEMMA AdvanceAloneStep ==
    ASSUME ExecutorInv, AloneInv, NEW p \in Procs, InLoop(ex[p]), ~Holding(ex[p]),
           UNCHANGED <<journalVars, effects>>, NEW w, Advance(p, w)
    PROVE  AloneStep(p)
  <1> DEFINE n == [ex[p] EXCEPT !.pc = "loop", !.idx = @ + 1, !.out = NoOutcome,
                                !.waiting = @ \/ w]
  <1>1. ex[p] \in Process /\ Alone(ex[p], runStatus, op, action, effects)
    BY ProcessFacts DEF AloneInv
  <1>2. Alone(n, runStatus, op, action, effects)
    BY <1>1, AdvanceAlone
  <1>3. ex'[p] = n
    BY BecomesIs DEF Advance
  <1> QED
    BY <1>2, <1>3 DEF AloneStep, journalVars

(* The top of the loop: what the snapshot says is what the journal says.   *)
LEMMA VisitAlone ==
    ASSUME ExecutorInv, AloneInv, NEW p \in Procs, Visit(p)
    PROVE  AloneStep(p)
  <1> USE DEF Visit
  <1>1. AtOp(p)
    BY DEF VisitDone, VisitPendingBlocker, VisitSkippedBlocker,
           VisitWaitingPrerequisite, VisitUnmetPrerequisite, VisitCancelled,
           VisitPreconditionFails, VisitForbiddenRetry, VisitReady, Eligible, Unblocked
  <1>2. ex[p].pc = "loop" /\ InLoop(ex[p]) /\ ~Holding(ex[p]) /\ Cur(p) \in Ops
    BY <1>1, ProcessFacts DEF AtOp, InLoop, Holding
  <1>3. UNCHANGED <<journalVars, effects>>
    <2>1. UNCHANGED journalVars
      BY VisitStep
    <2>2. UNCHANGED effects
      BY DEF VisitDone, VisitPendingBlocker, VisitSkippedBlocker,
             VisitWaitingPrerequisite, VisitUnmetPrerequisite, VisitCancelled,
             VisitPreconditionFails, VisitForbiddenRetry, VisitReady, world
    <2> QED
      BY <2>1, <2>2
  <1>4. /\ op[Cur(p)].attempt = Row(p).attempt
        /\ op[Cur(p)].state \in Done => Row(p).state \in Done
        /\ Row(p).state = "WAITING_FOR_USER" => op[Cur(p)].state = "WAITING_FOR_USER"
    <2>1. Agrees(ex[p].snap, op)
      BY <1>2 DEF AloneInv, Alone, Faithful
    <2> QED
      BY <1>2, <2>1 DEF Agrees, Row, Done
  <1>5. CASE VisitDone(p) \/ VisitPendingBlocker(p) \/ VisitWaitingPrerequisite(p)
    BY <1>2, <1>3, <1>5, AdvanceAloneStep
       DEF VisitDone, VisitPendingBlocker, VisitWaitingPrerequisite
  <1>6. CASE VisitSkippedBlocker(p)
    BY <1>2, <1>3, <1>4, <1>6, WriteAloneStep DEF VisitSkippedBlocker, IsBlocked, Done
  <1>7. CASE VisitUnmetPrerequisite(p) \/ VisitCancelled(p) \/ VisitPreconditionFails(p)
    <2>1. op[Cur(p)].state \notin Done
      BY <1>4, <1>7 DEF VisitUnmetPrerequisite, VisitCancelled, VisitPreconditionFails,
                        Eligible, Unblocked
    <2> QED
      BY <1>2, <1>3, <1>7, <2>1, FailureAloneStep
         DEF VisitUnmetPrerequisite, VisitCancelled, VisitPreconditionFails
  <1>8. CASE VisitForbiddenRetry(p)
    <2>1. op[Cur(p)].state \notin Done
      BY <1>4, <1>8 DEF VisitForbiddenRetry, Eligible, Unblocked
    <2> QED
      BY <1>2, <1>3, <1>8, <2>1, WriteAloneStep DEF VisitForbiddenRetry
  <1>9. CASE VisitReady(p)
    <2> DEFINE label == IF IsBlocked(p) /\ action[Blocker(p)] = "ACKNOWLEDGED"
                        THEN "complete" ELSE "ready"
    <2>1. op[Cur(p)].state \notin Done /\ Goto(p, label)
      BY <1>4, <1>9 DEF VisitReady, Eligible, Unblocked
    <2>2. Blocker(p) = BlockerOf(ex[p])
      BY DEF Blocker, BlockerOf, Row, Cur
    <2>3. Unstarted(ex[p])
      <3>1. ex[p].idx <= Len(OpSeq) /\ ~RetryForbidden(p)
        BY <1>9 DEF VisitReady, AtOp, Eligible, Unblocked
      <3>2. Row(p).attempt \in Nat
        BY <3>1, ProcessFacts DEF JournalOperation
      <3>3. Cur(p) \in NonIdempotent => Row(p).attempt = 0
        BY <3>1, <3>2 DEF RetryForbidden
      <3> QED
        BY <3>3 DEF Unstarted, Row, Cur
    <2>4. Row(p).state = "WAITING_FOR_USER" /\ Cur(p) \notin Manual => IsBlocked(p)
      BY <1>2, <1>4 DEF IsBlocked, Blocker, AloneInv, BlockedHasAction
    <2>5. label = "ready" => Consented(ex[p], action)
      BY <1>9, <2>2, <2>4 DEF Consented, VisitReady, Eligible, Unblocked, IsBlocked,
                              Row, Cur
    <2>6. label \in {"complete", "ready"}
      OBVIOUS
    <2> HIDE DEF label
    <2> QED
      BY <1>2, <1>3, <2>1, <2>3, <2>5, <2>6, GotoAloneStep
  <1> QED
    BY <1>5, <1>6, <1>7, <1>8, <1>9

(* The handler's outcome, with or without a change of the target.          *)
LEMMA RunAlone ==
    ASSUME ExecutorInv, AloneInv, NEW p \in Procs, Run(p)
    PROVE  AloneStep(p)
  <1>1. ex[p].pc = "run" /\ InLoop(ex[p]) /\ Holding(ex[p])
    BY DEF Run, RunCancelled, RunVerify, RunReboot, RunManual, RunManualPending,
           RunCompletes, RunSkips, RunBlocks, RunFaults, Mutates, Running,
           InLoop, Holding
  <1>2. UNCHANGED journalVars
    BY RunStep
  <1>3. op[Cur(p)].state \notin Done
    BY <1>1 DEF AloneInv, Alone, Unverified, Cur
  <1>4. CASE RunCancelled(p) \/ RunVerify(p) \/ RunReboot(p)
    <2>1. CASE \/ Write(p, "record", "COMPLETED", TRUE, "NONE")
               \/ Write(p, "record", "WAITING_FOR_REBOOT", FALSE, "WAITING_FOR_REBOOT")
      BY <1>1, <1>2, <1>3, <2>1, WriteAloneStep
    <2>2. CASE PersistFailure(p) \/ CancelledOperation(p)
      BY <1>1, <1>2, <1>3, <2>2, FailureAloneStep
    <2> QED
      BY <1>4, <2>1, <2>2 DEF RunCancelled, RunVerify, RunReboot
  <1>5. CASE RunManual(p)
    <2>1. Cur(p) \in Manual /\ UNCHANGED effects
      BY <1>5 DEF RunManual, world
    <2>2. CASE Goto(p, "complete")
      BY <1>1, <1>2, <1>3, <2>1, <2>2, GotoAloneStep
    <2>3. CASE \E s \in Done : Write(p, "record", s, FALSE, "NONE")
      BY <1>1, <1>2, <1>3, <2>3, WriteAloneStep DEF Done
    <2> QED
      BY <1>5, <2>2, <2>3 DEF RunManual
  <1>6. CASE RunManualPending(p)
    BY <1>1, <1>2, <1>3, <1>6, WriteAloneStep DEF RunManualPending
  <1>7. CASE RunCompletes(p) \/ RunSkips(p)
    BY <1>1, <1>2, <1>3, <1>7, WriteAloneStep DEF RunCompletes, RunSkips
  <1>8. CASE RunBlocks(p)
    BY <1>1, <1>2, <1>3, <1>8, WriteAloneStep DEF RunBlocks
  <1>9. CASE RunFaults(p)
    <2>1. CASE \/ Write(p, "record", "SKIPPED", FALSE, "NONE")
               \/ Write(p, "record", "INTERRUPTED", FALSE, "INTERRUPTED")
               \/ Write(p, "record", "WAITING_FOR_REBOOT", FALSE, "WAITING_FOR_REBOOT")
      BY <1>1, <1>2, <1>3, <2>1, WriteAloneStep
    <2>2. CASE PersistFailure(p) \/ CancelledOperation(p)
      BY <1>1, <1>2, <1>3, <2>2, FailureAloneStep
    <2> QED
      BY <1>9, <2>1, <2>2 DEF RunFaults
  <1> QED
    BY <1>4, <1>5, <1>6, <1>7, <1>8, <1>9 DEF Run

(* Before and after the handler, as far as the journal is left alone.      *)
LEMMA QuietAlone ==
    ASSUME ExecutorInv, AloneInv, NEW p \in Procs,
           \/ Quit(p) \/ Crash(p) \/ Launch(p) \/ Validate(p) \/ Cancel(p)
           \/ Ready(p) \/ Probe(p) \/ ProbeError(p)
    PROVE  AloneStep(p)
  <1>1. /\ ex[p] \in Process /\ ex \in [Procs -> Process]
        /\ Alone(ex[p], runStatus, op, action, effects)
    BY ProcessFacts DEF ExecutorInv, ExecutorTypeOK, AloneInv
  <1>2. UNCHANGED <<journalVars, effects>>
    BY DEF Quit, Crash, Launch, Validate, Cancel, Ready, Probe, ProbeError, world
  <1>3. UNCHANGED <<runStatus, op, action, effects>>
    BY <1>2 DEF journalVars
  <1>4. CASE Quit(p) \/ Crash(p)
    <2>1. ex'[p].pc = "down"
      BY <1>1, <1>4 DEF Quit, Crash, Becomes, At
    <2> QED
      BY <2>1, OutsideAlone DEF AloneStep
  <1>5. ex[p].pc \in {"idle", "validate"} /\ ~ex[p].refused
          => runStatus # "RUNNING" /\ \A o \in Ops : op[o].state # "RUNNING"
    BY <1>1 DEF Alone, Owned
  <1>6. CASE Launch(p)
    <2> DEFINE f == \A o \in Fingerprinted : effects[o] = 0
    <2>1. ex'[p] = [At("validate") EXCEPT !.fresh = f, !.refused = ex[p].refused]
      BY <1>6, BecomesIs DEF Launch
    <2> HIDE DEF f
    <2>2. ex'[p].pc = "validate" /\ ex'[p].refused = ex[p].refused
      BY <2>1 DEF At
    <2>3. ex[p].pc = "idle"
      BY <1>6 DEF Launch
    <2> QED
      BY <1>3, <1>5, <2>2, <2>3, OutsideAlone DEF AloneStep
  <1>7. CASE Validate(p)
    <2>1. ex[p].pc = "validate"
      BY <1>7 DEF Validate
    <2>2. CASE Return(p)
      <3>1. ex'[p].pc = "idle" /\ ex'[p].refused = ex[p].refused
        BY <2>2, LabelAfter
      <3> QED
        BY <1>3, <1>5, <2>1, <3>1, OutsideAlone DEF AloneStep
    <2>3. CASE Becomes(p, [ex[p] EXCEPT !.pc = "loop", !.snap = op])
      <3> DEFINE n == [ex[p] EXCEPT !.pc = "loop", !.snap = op]
      <3>1. n.pc = "loop" /\ n.snap = op /\ ex'[p] = n /\ n.refused = ex[p].refused
        BY <1>1, <2>3, BecomesIs DEF Process
      <3> HIDE DEF n
      <3>2. Faithful(n, op) /\ Owned(n, runStatus, op)
        BY <1>5, <2>1, <3>1 DEF Faithful, Agrees, Owned
      <3>3. Unverified(n, op) /\ Queued(n, action) /\ Allowed(n, action)
            /\ FirstTime(n, effects)
        BY <3>1 DEF Unverified, Queued, Allowed, FirstTime
      <3> QED
        BY <1>3, <3>1, <3>2, <3>3 DEF AloneStep, Alone
    <2> QED
      BY <1>7, <2>2, <2>3 DEF Validate
  <1>8. CASE Cancel(p)
    <2> DEFINE n == [ex[p] EXCEPT !.cancel = TRUE]
    <2>1. /\ n.pc = ex[p].pc /\ n.idx = ex[p].idx /\ n.snap = ex[p].snap
          /\ n.out = ex[p].out /\ n.refused = ex[p].refused
      BY <1>1 DEF Process
    <2>2. ex'[p] = n
      BY <1>8, BecomesIs DEF Cancel
    <2> HIDE DEF n
    <2>3. BlockerOf(n) = BlockerOf(ex[p]) /\ (Holding(n) <=> Holding(ex[p]))
          /\ (InLoop(n) <=> InLoop(ex[p]))
      BY <2>1 DEF BlockerOf, Holding, InLoop
    <2>4. Faithful(n, op) /\ Owned(n, runStatus, op) /\ Unverified(n, op)
      BY <1>1, <2>1, <2>3 DEF Alone, Faithful, Owned, Unverified
    <2>5. Queued(n, action) /\ Allowed(n, action) /\ FirstTime(n, effects)
      BY <1>1, <2>1, <2>3 DEF Alone, Queued, Allowed, Consented, Unstarted, FirstTime
    <2> QED
      BY <1>3, <2>2, <2>4, <2>5 DEF AloneStep, Alone
  <1>9. CASE Ready(p) \/ Probe(p) \/ ProbeError(p)
    <2>1. ex[p].pc \in {"ready", "probe"}
      BY <1>9 DEF Ready, Probe, ProbeError
    <2>2. InLoop(ex[p]) /\ ~Holding(ex[p])
      BY <2>1 DEF InLoop, Holding
    <2>3. op[Cur(p)].state \notin Done /\ Consented(ex[p], action) /\ Unstarted(ex[p])
      BY <1>1, <2>1 DEF Alone, Unverified, Allowed, Cur
    <2>4. CASE Goto(p, "mark") \/ Goto(p, "probe")
      BY <1>2, <2>2, <2>3, <2>4, GotoAloneStep
    <2>5. CASE CancelledReport(p) \/ PersistFailure(p)
      BY <1>2, <2>2, <2>3, <2>5, FailureAloneStep
    <2>6. CASE Write(p, "record", "SKIPPED", ~Decided(Cur(p)), "NONE")
      <3> DEFINE proof == ~Decided(Cur(p))
      <3>1. Write(p, "record", "SKIPPED", proof, "NONE")
        BY <2>6
      <3> HIDE DEF proof
      <3> QED
        BY <1>2, <2>2, <2>3, <3>1, WriteAloneStep
    <2> QED
      BY <1>9, <2>4, <2>5, <2>6 DEF Ready, Probe, ProbeError
  <1> QED
    BY <1>4, <1>6, <1>7, <1>8, <1>9

(* A failing journal call: the executor returns and remembers that it was  *)
(* refused, or records the failure of the operation.                       *)
LEMMA FailsAlone ==
    ASSUME ExecutorInv, AloneInv, NEW p \in Procs, JournalFails(p)
    PROVE  AloneStep(p)
  <1>1. Alone(ex[p], runStatus, op, action, effects) /\ UNCHANGED <<journalVars, effects>>
    BY DEF AloneInv, JournalFails
  <1>2. UNCHANGED <<runStatus, op, action, effects>>
    BY <1>1 DEF journalVars
  <1>3. CASE Leave(p, TRUE)
    <2>1. ex'[p].pc = "idle" /\ ex'[p].refused = TRUE
      BY <1>3, LabelAfter
    <2> QED
      BY <2>1, OutsideAlone DEF AloneStep
  <1>4. CASE ex[p].pc = "validate" /\ Return(p)
    <2>1. ex'[p].pc = "idle" /\ ex'[p].refused = ex[p].refused
      BY <1>4, LabelAfter
    <2>2. ~ex[p].refused => runStatus # "RUNNING" /\ \A o \in Ops : op[o].state # "RUNNING"
      BY <1>1, <1>4 DEF Alone, Owned
    <2> QED
      BY <1>2, <2>1, <2>2, OutsideAlone DEF AloneStep
  <1>5. CASE /\ ex[p].pc \in {"complete", "mark", "queue", "run"}
             /\ PersistFailure(p) \/ CancelledOperation(p)
    <2>1. InLoop(ex[p]) /\ op[Cur(p)].state \notin Done
      BY <1>1, <1>5 DEF InLoop, Alone, Unverified, Cur
    <2> QED
      BY <1>1, <1>5, <2>1, FailureAloneStep
  <1> QED
    BY <1>3, <1>4, <1>5 DEF JournalFails, ActionRefused, Running

-----------------------------------------------------------------------------
(* The steps of the one executor that write to the journal.                *)

(* Consuming the acknowledgement a process has read, or finding that the   *)
(* user has skipped the action since.                                      *)
LEMMA CompleteActionAlone ==
    ASSUME ExecutorInv, AloneInv, NEW p \in Procs, CompleteAction(p)
    PROVE  AloneStep(p)
  <1>1. ex[p] \in Process /\ Alone(ex[p], runStatus, op, action, effects)
    BY ProcessFacts DEF AloneInv
  <1>2. ex[p].pc = "complete" /\ InLoop(ex[p])
    BY DEF CompleteAction, InLoop
  <1>3. op[Cur(p)].state \notin Done
    BY <1>1, <1>2 DEF Alone, Unverified, Cur
  <1>4. CASE UNCHANGED journalVars /\ (PersistFailure(p) \/ CancelledOperation(p))
    BY <1>2, <1>3, <1>4, FailureAloneStep
  <1>5. CASE CanSetAction(Acknowledged(p), "COMPLETED")
    <2> DEFINE a == Acknowledged(p)
    <2>1. /\ a \in DOMAIN action /\ action' = [action EXCEPT ![a] = "COMPLETED"]
          /\ UNCHANGED <<runStatus, op, effects>>
      BY <1>5 DEF CompleteAction, SetManualActionState, CanSetAction, world
    <2>2. action'[a] = "COMPLETED" /\ DOMAIN action' = DOMAIN action
      BY <2>1
    <2>3. \A b \in DOMAIN action : action[b] = "COMPLETED" => action'[b] = "COMPLETED"
      BY <2>1
    <2>4. Alone(ex[p], runStatus, op, action', effects)
      BY <1>1, <2>2, <2>3, ActionsAlone
    <2>5. CASE Cur(p) \in Manual
      <3> DEFINE out == [state |-> "COMPLETED", proof |-> FALSE, then |-> "NONE"]
      <3>1. ex'[p] = [ex[p] EXCEPT !.pc = "record", !.out = out]
        BY <1>5, <2>5, BecomesIs DEF CompleteAction, Write
      <3>2. out.state = "COMPLETED"
        OBVIOUS
      <3> HIDE DEF out
      <3>3. Alone([ex[p] EXCEPT !.pc = "record", !.out = out], runStatus, op, action', effects)
        BY <1>1, <1>2, <1>3, <2>4, <3>2, WriteAlone DEF Cur
      <3> QED
        BY <2>1, <3>1, <3>3 DEF AloneStep
    <2>6. CASE Cur(p) \notin Manual
      <3>1. ex'[p] = [ex[p] EXCEPT !.pc = "ready"]
        BY <1>5, <2>6, BecomesIs DEF CompleteAction, Goto
      <3>2. a = BlockerOf(ex[p])
        BY <2>6 DEF Acknowledged, Blocker, BlockerOf, Row, Cur
      <3>3. Consented(ex[p], action') /\ Unstarted(ex[p])
        BY <1>1, <1>2, <2>1, <2>2, <2>6, <3>2 DEF Consented, Alone, Allowed, Cur
      <3>4. ~Holding(ex[p])
        BY <1>2, <2>6 DEF Holding, Cur
      <3>5. Alone([ex[p] EXCEPT !.pc = "ready"], runStatus, op, action', effects)
        BY <1>1, <1>2, <1>3, <2>4, <3>3, <3>4, GotoAlone DEF Cur
      <3> QED
        BY <2>1, <3>1, <3>5 DEF AloneStep
    <2> QED
      BY <2>5, <2>6
  <1> QED
    BY <1>4, <1>5 DEF CompleteAction, ActionRefused

(* Starting an attempt.                                                    *)
LEMMA MarkRunningAlone ==
    ASSUME ExecutorInv, AloneInv, EffectsInv, NEW p \in Procs, MarkRunning(p)
    PROVE  AloneStep(p)
  <1>1. ex[p] \in Process /\ Alone(ex[p], runStatus, op, action, effects)
    BY ProcessFacts DEF AloneInv
  <1>2. ex[p].pc = "mark" /\ InLoop(ex[p]) /\ ~Holding(ex[p])
    BY DEF MarkRunning, InLoop, Holding
  <1>3. CASE PersistFailure(p) /\ UNCHANGED journalVars
    <2>1. op[Cur(p)].state \notin Done
      BY <1>1, <1>2 DEF Alone, Unverified, Cur
    <2> QED
      BY <1>2, <1>3, <2>1, FailureAloneStep
  <1>4. CASE CanTransition(Cur(p), "RUNNING")
    <2> DEFINE o == Cur(p)
               row == op'[o]
               n == [ex[p] EXCEPT !.pc = "run", !.snap[o] = row]
    <2>1. /\ o \in Ops /\ ex'[p] = n /\ UNCHANGED <<action, effects>>
          /\ row = [state |-> "RUNNING", attempt |-> op[o].attempt + 1, proof |-> FALSE]
          /\ \A q \in Ops : q # o => op'[q] = op[q]
      BY <1>4, MarkedRow
    <2>2. row.state = "RUNNING"
      BY <2>1
    <2>3. /\ n.pc = "run" /\ n.idx = ex[p].idx /\ n.snap[o] = row
          /\ \A q \in Ops : q # o => n.snap[q] = ex[p].snap[q]
          /\ n.refused = ex[p].refused
      BY <1>1, <2>1 DEF Process
    <2> HIDE DEF n, row
    <2>4. /\ Agrees(ex[p].snap, op)
          /\ ~ex[p].refused => \A q \in Ops : ex[p].snap[q].state # "RUNNING"
      BY <1>1, <1>2 DEF Alone, Faithful, Owned
    <2>5. Faithful(n, op')
      BY <2>1, <2>3, <2>4 DEF Faithful, Agrees, row
    <2>6. Owned(n, runStatus', op')
      BY <2>3, <2>4 DEF Owned, Holding, Cur
    <2>7. Unverified(n, op')
      BY <2>2, <2>3 DEF Unverified, Done, row, Cur
    <2>8. Queued(n, action') /\ Allowed(n, action')
      BY <2>3 DEF Queued, Allowed
    <2>9. FirstTime(n, effects')
      <3> SUFFICES ASSUME o \in NonIdempotent PROVE effects[o] = 0
        BY <2>1, <2>3 DEF FirstTime, Cur
      <3>1. op[o].attempt = 0
        BY <1>1, <1>2, <2>1, <2>4 DEF Alone, Allowed, Unstarted, Agrees, Cur
      <3>2. effects[o] + Cardinality(Runners(o)) <= 0 /\ Cardinality(Runners(o)) \in Nat
        BY <2>1, <3>1, FS_CardinalityType DEF EffectsInv
      <3>3. effects[o] \in Nat
        BY <2>1 DEF ExecutorInv, ExecutorTypeOK
      <3> HIDE DEF o
      <3> QED
        BY <3>2, <3>3
    <2> QED
      BY <2>1, <2>5, <2>6, <2>7, <2>8, <2>9 DEF AloneStep, Alone
  <1> QED
    BY <1>3, <1>4 DEF MarkRunning

(* Queueing the action of a blocked attempt.                               *)
LEMMA QueueBlockerAlone ==
    ASSUME ExecutorInv, AloneInv, NEW p \in Procs, QueueBlocker(p)
    PROVE  AloneStep(p)
  <1>1. ex[p] \in Process /\ Alone(ex[p], runStatus, op, action, effects)
    BY ProcessFacts DEF AloneInv
  <1>2. ex[p].pc = "queue" /\ UNCHANGED <<runStatus, op, effects>>
    BY DEF QueueBlocker, AddManualAction, journalVars, world
  <1>3. /\ Blocker(p) \in DOMAIN action'
        /\ \A a \in DOMAIN action : /\ a \in DOMAIN action'
                                    /\ action'[a] = action[a]
    BY DEF QueueBlocker, AddManualAction, journalVars
  <1>4. Alone(ex[p], runStatus, op, action', effects)
    BY <1>1, <1>3, ActionsAlone
  <1> DEFINE n == [ex[p] EXCEPT !.pc = "record"]
  <1>5. ex'[p] = n
    BY BecomesIs DEF QueueBlocker, Goto
  <1>6. /\ n.pc = "record" /\ n.idx = ex[p].idx /\ n.snap = ex[p].snap
        /\ n.refused = ex[p].refused
    BY <1>1 DEF Process
  <1> HIDE DEF n
  <1>7. BlockerOf(n) = Blocker(p)
    BY <1>6 DEF BlockerOf, Blocker, Row, Cur
  <1>8. Faithful(n, op) /\ Owned(n, runStatus, op) /\ Unverified(n, op)
    BY <1>2, <1>4, <1>6 DEF Alone, Faithful, Owned, Unverified, InLoop, Holding
  <1>9. Queued(n, action') /\ Allowed(n, action') /\ FirstTime(n, effects)
    BY <1>3, <1>6, <1>7 DEF Queued, Allowed, FirstTime
  <1> QED
    BY <1>2, <1>5, <1>8, <1>9 DEF AloneStep, Alone

(* Recording the outcome.  The journal never refuses it to the only        *)
(* executor, so the row does not stay RUNNING.                             *)
LEMMA RecordedRow ==
    ASSUME ExecutorInv, AloneInv, NEW p \in Procs, Record(p)
    PROVE  /\ Cur(p) \in Ops
           /\ op'[Cur(p)].state = ex[p].out.state
           /\ op'[Cur(p)].attempt = op[Cur(p)].attempt
           /\ \A o \in Ops : o # Cur(p) => op'[o] = op[o]
           /\ ex'[p].pc \in {"status", "loop"} /\ ex'[p].refused = ex[p].refused
           /\ ex'[p].snap = [ex[p].snap EXCEPT ![Cur(p)] = op'[Cur(p)]]
           /\ UNCHANGED <<action, effects>>
  <1>1. /\ ex[p] \in Process /\ Cur(p) \in Ops /\ op \in [Ops -> JournalOperation]
    BY ProcessFacts DEF Record
  <1>2. ex[p].pc = "record" /\ op[Cur(p)].state \notin Done
    BY DEF Record, AloneInv, Alone, Unverified, Cur
  <1>3. ex[p].out.state # "RUNNING"
    BY <1>2, ProcessFacts DEF Sound, WriteSound
  <1> DEFINE out == ex[p].out
             new == Transitioned(Cur(p), out.state, out.proof)
             kept == Remember(p, new)
  <1>4. CanTransition(Cur(p), out.state)
    BY <1>2, <1>3 DEF CanTransition
  <1>5. new = [state |-> out.state, attempt |-> op[Cur(p)].attempt, proof |-> out.proof]
    BY <1>2, <1>3 DEF Transitioned
  <1>6. TransitionOperation(Cur(p), out.state, out.proof) /\ UNCHANGED effects
    BY <1>4 DEF Record, world
  <1>7. /\ op'[Cur(p)] = new /\ UNCHANGED action
        /\ \A o \in Ops : o # Cur(p) => op'[o] = op[o]
    BY <1>1, <1>6 DEF TransitionOperation
  <1>8. /\ kept.snap = [ex[p].snap EXCEPT ![Cur(p)] = new]
        /\ kept \in [pc : {ex[p].pc}, idx : {ex[p].idx}, snap : {kept.snap},
                     waiting : {ex[p].waiting}, cancel : {ex[p].cancel},
                     fresh : {ex[p].fresh}, refused : {ex[p].refused}, out : {out}]
    BY <1>1 DEF Remember, Process
  <1>9. /\ ex'[p].pc \in {"status", "loop"} /\ ex'[p].snap = kept.snap
        /\ ex'[p].refused = ex[p].refused
    <2>1. \/ ex'[p] = [kept EXCEPT !.pc = "status"]
          \/ ex'[p] = [kept EXCEPT !.pc = "loop", !.idx = @ + 1, !.out = NoOutcome,
                         !.waiting = @ \/ out.state = "WAITING_FOR_USER"]
      BY <1>4, BecomesIs DEF Record
    <2> HIDE DEF kept, out
    <2> QED
      BY <1>8, <2>1
  <1>10. op'[Cur(p)].state = out.state /\ op'[Cur(p)].attempt = op[Cur(p)].attempt
    BY <1>5, <1>7
  <1> QED
    BY <1>1, <1>6, <1>7, <1>8, <1>9, <1>10

(* The recorded row is the one the process remembers.                      *)
LEMMA RecordAlone ==
    ASSUME ExecutorInv, AloneInv, NEW p \in Procs, Record(p)
    PROVE  AloneStep(p)
  <1> DEFINE n == ex'[p]
             o == Cur(p)
  <1>1. /\ ex[p] \in Process /\ Alone(ex[p], runStatus, op, action, effects)
        /\ ex[p].pc = "record"
    BY ProcessFacts DEF AloneInv, Record
  <1>2. ex[p].out.state # "RUNNING"
    BY <1>1, ProcessFacts DEF Sound, WriteSound
  <1>3. /\ o \in Ops /\ op'[o].state = ex[p].out.state
        /\ op'[o].attempt = op[o].attempt
        /\ \A q \in Ops : q # o => op'[q] = op[q]
        /\ n.pc \in {"status", "loop"} /\ n.refused = ex[p].refused
        /\ n.snap = [ex[p].snap EXCEPT ![o] = op'[o]]
    BY RecordedRow
  <1>4. n.snap[o] = op'[o] /\ \A q \in Ops : q # o => n.snap[q] = ex[p].snap[q]
    BY <1>1, <1>3 DEF Process
  <1>5. /\ Agrees(ex[p].snap, op)
        /\ ~ex[p].refused => \A q \in Ops : ex[p].snap[q].state = "RUNNING" => q = o
    BY <1>1 DEF Alone, Faithful, Owned, InLoop, Cur
  <1> HIDE DEF n, o
  <1>6. Faithful(n, op')
    BY <1>3, <1>4, <1>5 DEF Faithful, Agrees
  <1>7. Owned(n, runStatus', op')
    BY <1>2, <1>3, <1>4, <1>5 DEF Owned
  <1>8. /\ Unverified(n, op') /\ Queued(n, action') /\ Allowed(n, action')
        /\ FirstTime(n, effects')
    BY <1>3 DEF Unverified, Queued, Allowed, FirstTime
  <1> QED
    BY <1>6, <1>7, <1>8 DEF AloneStep, Alone, n

(* The ways out of execute_with_progress leave no row RUNNING.             *)
LEMMA ReturnAlone ==
    ASSUME ExecutorInv, AloneInv, NEW p \in Procs, SetStatus(p) \/ Finish(p)
    PROVE  AloneStep(p)
  <1>1. ex[p].pc \in {"status", "loop"} /\ Alone(ex[p], runStatus, op, action, effects)
    BY DEF SetStatus, Finish, AloneInv
  <1>2. ~ex[p].refused => \A o \in Ops : op[o].state # "RUNNING"
    <2>1. /\ Agrees(ex[p].snap, op)
          /\ ~ex[p].refused => \A o \in Ops : ex[p].snap[o].state # "RUNNING"
      BY <1>1 DEF Alone, Faithful, Owned, InLoop, Holding
    <2> QED
      BY <2>1 DEF Agrees
  <1>3. runStatus' # "RUNNING" /\ op' = op
    <2>1. CASE SetStatus(p)
      BY <2>1, ProcessFacts DEF SetStatus, SetRunStatus, Sound, WriteSound
    <2>2. CASE Finish(p)
      BY <2>2 DEF Finish, SetRunStatus
    <2> QED
      BY <2>1, <2>2
  <1>4. ex'[p].pc = "idle" /\ ex'[p].refused = ex[p].refused
    BY LabelAfter DEF SetStatus, Finish
  <1> QED
    BY <1>2, <1>3, <1>4, OutsideAlone DEF AloneStep

(* Opening the journal at process start recovers every RUNNING row.        *)
LEMMA OpenAlone ==
    ASSUME ExecutorInv, NEW p \in Procs, OpenJournal(p)
    PROVE  AloneStep(p)
  <1>1. ex'[p].pc = "idle"
    BY LabelAfter DEF OpenJournal
  <1>2. op \in [Ops -> JournalOperation]
    BY DEF ExecutorInv, ExecutorTypeOK, JournalTypeOK
  <1>3. runStatus' # "RUNNING" /\ \A o \in Ops : op'[o].state # "RUNNING"
    BY <1>2 DEF OpenJournal, RecoverRunningOperations, JournalOperation
  <1> QED
    BY <1>1, <1>3, OutsideAlone DEF AloneStep

(* Every step of the one executor.                                         *)
LEMMA MovesAlone ==
    ASSUME ExecutorInv, AloneInv, EffectsInv, NEW p \in Procs, ProcessMoves(p)
    PROVE  AloneStep(p)
  BY VisitAlone, RunAlone, QuietAlone, CompleteActionAlone, MarkRunningAlone,
     QueueBlockerAlone, RecordAlone, ReturnAlone, OpenAlone, FailsAlone
     DEF ProcessMoves, Execute

-----------------------------------------------------------------------------
(* The journal's rows and actions, and the effects, in a step.             *)

(* The only steps of a process that write operation rows.                  *)
LEMMA RowWriters ==
    ASSUME ExecutorInv, NEW p \in Procs, ProcessMoves(p), op' # op
    PROVE  \/ RecoverRunningOperations
           \/ MarkRunning(p) /\ CanTransition(Cur(p), "RUNNING")
           \/ Record(p)
  <1>1. ~(\/ Quit(p) \/ Crash(p) \/ Launch(p) \/ Validate(p) \/ Cancel(p)
          \/ Ready(p) \/ Probe(p) \/ ProbeError(p) \/ Visit(p) \/ Run(p)
          \/ JournalFails(p))
    BY QuietStep, VisitStep, RunStep, FailsStep DEF journalVars
  <1>2. ~(CompleteAction(p) \/ QueueBlocker(p) \/ SetStatus(p) \/ Finish(p))
    BY DEF CompleteAction, QueueBlocker, SetStatus, Finish, SetRunStatus,
           SetManualActionState, AddManualAction, journalVars
  <1>3. OpenJournal(p) => RecoverRunningOperations
    BY DEF OpenJournal
  <1>4. MarkRunning(p) => CanTransition(Cur(p), "RUNNING")
    BY DEF MarkRunning, journalVars
  <1> QED
    BY <1>1, <1>2, <1>3, <1>4 DEF ProcessMoves, Execute

(* No transaction removes a manual action or reopens a completed one.      *)
LEMMA ActionsGrow ==
    ASSUME [JournalNext]_journalVars
    PROVE  \A a \in DOMAIN action :
              /\ a \in DOMAIN action'
              /\ action[a] = "COMPLETED" => action'[a] = "COMPLETED"
  <1>1. CASE action' = action
    BY <1>1
  <1>2. CASE \E a \in ActionId : AddManualAction(a)
    BY <1>2 DEF AddManualAction
  <1>3. CASE \E a \in ActionId, s \in ActionState : SetManualActionState(a, s)
    BY <1>3 DEF SetManualActionState, CanSetAction, ValidManualActionTransition
  <1> QED
    BY <1>1, <1>2, <1>3
       DEF JournalNext, journalVars, SetApproval, SetRunStatus, TransitionOperation,
           RecoverRunningOperations

(* Recovery leaves no new wait behind and keeps every attempt's number.    *)
LEMMA RecoveredRows ==
    ASSUME ExecutorInv, RecoverRunningOperations, NEW o \in Ops
    PROVE  /\ op'[o].attempt = op[o].attempt
           /\ op'[o].state \in {op[o].state, "INTERRUPTED"}
  <1>1. op \in [Ops -> JournalOperation]
    BY DEF ExecutorInv, ExecutorTypeOK, JournalTypeOK
  <1> QED
    BY <1>1 DEF RecoverRunningOperations, JournalOperation

(* A wait gets into the journal only after its action did.                 *)
LEMMA BlockedStep ==
    ASSUME ExecutorInv, AloneInv, [Next]_vars PROVE BlockedHasAction'
  <1> SUFFICES ASSUME NEW o \in Ops \ Manual, op'[o].state = "WAITING_FOR_USER"
               PROVE  <<o, op'[o].attempt>> \in DOMAIN action'
    BY DEF BlockedHasAction
  <1>1. \A a \in DOMAIN action : a \in DOMAIN action'
    BY StepIsJournalled, ActionsGrow
  <1>2. CASE op[o].state = "WAITING_FOR_USER" /\ op'[o].attempt = op[o].attempt
    BY <1>1, <1>2 DEF AloneInv, BlockedHasAction
  <1>3. CASE op' = op
    BY <1>2, <1>3
  <1>4. CASE RecoverRunningOperations
    BY <1>2, <1>4, RecoveredRows
  <1>5. ASSUME NEW p \in Procs, MarkRunning(p), CanTransition(Cur(p), "RUNNING")
        PROVE  <<o, op'[o].attempt>> \in DOMAIN action'
    <2>1. /\ op'[Cur(p)] = [state |-> "RUNNING", attempt |-> op[Cur(p)].attempt + 1,
                            proof |-> FALSE]
          /\ \A q \in Ops : q # Cur(p) => op'[q] = op[q]
      BY <1>5, MarkedRow
    <2>2. op'[Cur(p)].state = "RUNNING"
      BY <2>1
    <2> QED
      BY <1>2, <2>1, <2>2
  <1>6. ASSUME NEW p \in Procs, Record(p)
        PROVE  <<o, op'[o].attempt>> \in DOMAIN action'
    <2>1. /\ op'[Cur(p)].state = ex[p].out.state
          /\ op'[Cur(p)].attempt = op[Cur(p)].attempt
          /\ \A q \in Ops : q # Cur(p) => op'[q] = op[q]
          /\ action' = action
      BY <1>6, RecordedRow
    <2>2. CASE o # Cur(p)
      BY <1>2, <2>1, <2>2
    <2>3. CASE o = Cur(p)
      <3>1. /\ Alone(ex[p], runStatus, op, action, effects) /\ ex[p].pc = "record"
        BY <1>6 DEF AloneInv, Record
      <3>2. BlockerOf(ex[p]) \in DOMAIN action
        BY <2>1, <2>3, <3>1 DEF Alone, Queued, Cur
      <3>3. op[o].attempt = ex[p].snap[o].attempt
        BY <3>1 DEF Alone, Faithful, Agrees, InLoop
      <3> QED
        BY <2>1, <2>3, <3>2, <3>3 DEF BlockerOf, Cur
    <2> QED
      BY <2>2, <2>3
  <1>7. ASSUME NEW p \in Procs, ProcessMoves(p)
        PROVE  <<o, op'[o].attempt>> \in DOMAIN action'
    BY <1>3, <1>4, <1>5, <1>6, <1>7, RowWriters
  <1>8. UserMoves => op' = op \/ RecoverRunningOperations
    BY DEF UserMoves, OtherCommandOpens, Decide, SetApproval, Acknowledge, Skip,
           SetManualActionState
  <1> QED
    BY <1>3, <1>4, <1>7, <1>8 DEF Next, ProcessMoves, UserMoves, vars

(* A handler applies non-idempotent work that was never applied before.    *)
LEMMA OnceStep ==
    ASSUME ExecutorInv, AloneInv, [Next]_vars PROVE NonIdempotentOnce'
  <1> SUFFICES ASSUME NEW o \in NonIdempotent PROVE effects'[o] <= 1
    BY DEF NonIdempotentOnce
  <1>1. effects[o] <= 1 /\ effects \in [Ops -> Nat] /\ o \in Ops
    BY PlanAssumption DEF AloneInv, NonIdempotentOnce, ExecutorInv, ExecutorTypeOK
  <1>2. CASE UNCHANGED effects
    BY <1>1, <1>2
  <1>3. ASSUME NEW p \in Procs, ProcessMoves(p) PROVE effects'[o] <= 1
    <2>1. CASE Mutates(p) /\ Apply(Cur(p))
      <3>1. ex[p].pc = "run"
        BY <2>1 DEF Mutates, Running
      <3>2. Cur(p) \in Ops
        BY <3>1, ProcessFacts
      <3>3. Cur(p) = o => effects[o] = 0
        BY <3>1 DEF AloneInv, Alone, FirstTime, Cur
      <3>4. effects' = [effects EXCEPT ![Cur(p)] = @ + 1]
        BY <2>1 DEF Apply
      <3> QED
        BY <1>1, <3>2, <3>3, <3>4
    <2> QED
      BY <1>2, <1>3, <2>1, EffectsStep
  <1> QED
    BY <1>2, <1>3, UserMovesStep DEF Next, ProcessMoves, UserMoves, vars, world

(* The user and other commands leave the executor what it relies on.       *)
LEMMA UserAlone ==
    ASSUME ExecutorInv, AloneInv, UserMoves, NEW p \in Procs
    PROVE  AloneStep(p)
  <1>1. /\ ex[p] \in Process /\ Alone(ex[p], runStatus, op, action, effects)
        /\ InLoop(ex[p]) /\ ex[p].pc # "loop" => OpSeq[ex[p].idx] \in Ops
    BY ProcessFacts DEF AloneInv, InLoop, Cur
  <1>2. ex' = ex /\ effects' = effects
    BY UserMovesStep DEF world
  <1>3. CASE OtherCommandOpens
    <2>1. RecoverRunningOperations /\ action' = action
      BY <1>3 DEF OtherCommandOpens, RecoverRunningOperations
    <2> QED
      BY <1>1, <1>2, <2>1, RecoverAlone DEF AloneStep
  <1>4. CASE Decide \/ \E a \in ActionId : Acknowledge(a) \/ Skip(a)
    <2>1. UNCHANGED <<runStatus, op>>
      BY <1>4 DEF Decide, SetApproval, Acknowledge, Skip, SetManualActionState
    <2>2. \A a \in DOMAIN action :
             /\ a \in DOMAIN action'
             /\ action[a] = "COMPLETED" => action'[a] = "COMPLETED"
      BY UserMovesStep, ActionsGrow
    <2> QED
      BY <1>1, <1>2, <2>1, <2>2, ActionsAlone DEF AloneStep
  <1> QED
    BY <1>3, <1>4 DEF UserMoves

(* The one-executor invariant is inductive: the process that moves is the  *)
(* only one.                                                               *)
LEMMA AloneInductive ==
    ASSUME OneExecutor, ExecutorInv, EffectsInv, AloneInv, [Next]_vars
    PROVE  AloneInv'
  <1>1. BlockedHasAction' /\ NonIdempotentOnce'
    BY BlockedStep, OnceStep
  <1> SUFFICES ASSUME NEW q \in Procs PROVE AloneStep(q)
    BY <1>1 DEF AloneInv, AloneStep
  <1>2. CASE UNCHANGED vars
    BY <1>2 DEF vars, AloneInv, AloneStep
  <1>3. CASE UserMoves
    BY <1>3, UserAlone
  <1>4. CASE \E p \in Procs : ProcessMoves(p)
    BY <1>4, MovesAlone DEF OneExecutor
  <1> QED
    BY <1>2, <1>3, <1>4 DEF Next, ProcessMoves, UserMoves

(* A freshly created run has one executor that is down.                    *)
LEMMA AloneInit == Init => AloneInv
  <1> SUFFICES ASSUME Init PROVE AloneInv
    OBVIOUS
  <1>1. \A o \in Ops : op[o].state = "PENDING"
    BY DEF Init, JournalInit
  <1>2. \A p \in Procs : ex[p].pc = "down"
    BY DEF Init, At
  <1>3. \A p \in Procs : Alone(ex[p], runStatus, op, action, effects)
    BY <1>2, OutsideAlone
  <1>4. BlockedHasAction
    BY <1>1 DEF BlockedHasAction
  <1>5. NonIdempotentOnce
    <2>1. \A o \in NonIdempotent : effects[o] = 0
      BY PlanAssumption DEF Init
    <2> QED
      BY <2>1 DEF NonIdempotentOnce
  <1> QED
    BY <1>3, <1>4, <1>5 DEF AloneInv

(* A retried operation was consented to.                                   *)
LEMMA RetryStep ==
    ASSUME ExecutorInv, AloneInv, [Next]_vars, NEW o \in Ops \ Manual,
           op[o].state = "WAITING_FOR_USER", op'[o].state = "RUNNING"
    PROVE  action[<<o, op[o].attempt>>] = "COMPLETED"
  <1>1. op' # op /\ ~RecoverRunningOperations
    BY RecoveredRows
  <1>2. ~UserMoves
    BY <1>1 DEF UserMoves, OtherCommandOpens, Decide, SetApproval, Acknowledge, Skip,
           SetManualActionState
  <1>3. PICK p \in Procs : ProcessMoves(p)
    BY <1>1, <1>2 DEF Next, ProcessMoves, UserMoves, vars
  <1>4. ~Record(p)
    <2> SUFFICES ASSUME Record(p) PROVE FALSE
      OBVIOUS
    <2>1. ex[p].pc = "record" /\ ex[p].out.state # "RUNNING"
      BY ProcessFacts DEF Record, Sound, WriteSound
    <2> QED
      BY <2>1, RecordedRow
  <1>5. MarkRunning(p) /\ CanTransition(Cur(p), "RUNNING")
    BY <1>1, <1>3, <1>4, RowWriters
  <1>6. o = Cur(p)
    BY <1>5, MarkedRow
  <1>7. ex[p].pc = "mark" /\ Alone(ex[p], runStatus, op, action, effects)
    BY <1>5 DEF MarkRunning, AloneInv
  <1>8. Agrees(ex[p].snap, op) /\ Consented(ex[p], action)
    BY <1>7 DEF Alone, Faithful, Allowed, InLoop
  <1>9. ex[p].snap[o].state = "WAITING_FOR_USER" /\ ex[p].snap[o].attempt = op[o].attempt
    BY <1>8 DEF Agrees
  <1> QED
    BY <1>6, <1>8, <1>9 DEF Consented, BlockerOf, Cur

-----------------------------------------------------------------------------
(* The theorems about one executor.  They do not hold of two: both may     *)
(* read an operation as unstarted, or an action as acknowledged, before    *)
(* either of them writes.                                                  *)

(* What the one executor relies on holds in every reachable state.         *)
LEMMA AloneHolds ==
    ASSUME OneExecutor
    PROVE  Spec => [](ExecutorInv /\ EffectsInv /\ AloneInv)
  <1>1. ExecutorInv /\ EffectsInv /\ AloneInv /\ [Next]_vars => AloneInv'
    BY AloneInductive
  <1> QED
    BY <1>1, EffectsHold, AloneInit, PTL DEF Spec

(* Work marked non-idempotent reaches the target at most once, through any *)
(* crashes, cancellations, resumes and opens by other commands: a crash    *)
(* between the effect and its record leaves an attempt that the retry      *)
(* check of the next resume finds.                                         *)
THEOREM NonIdempotentWorkHappensOnce ==
    ASSUME OneExecutor
    PROVE  Spec => []NonIdempotentOnce
  BY AloneHolds, PTL DEF AloneInv

(* An operation that waits for the user has its attempt's action in the    *)
(* queue, wherever the process crashed between queueing and recording.     *)
THEOREM BlockedWorkHasItsAction ==
    ASSUME OneExecutor
    PROVE  Spec => []BlockedHasAction
  BY AloneHolds, PTL DEF AloneInv

(* When the executor has returned to its caller neither the run nor any of *)
(* its operations is left RUNNING, on every way out of                     *)
(* execute_with_progress but one: a refused journal call, on which it      *)
(* returns the journal's error, and whose leavings the next open settles.  *)
THEOREM ExecutorReturnsSettled ==
    ASSUME OneExecutor
    PROVE  Spec => []ReturnsSettled
  <1>1. AloneInv => ReturnsSettled
    BY DEF AloneInv, Alone, Owned, ReturnsSettled
  <1> QED
    BY <1>1, AloneHolds, PTL

(* A blocked operation is started again only after the user acknowledged   *)
(* the action of exactly its last attempt and the executor consumed the    *)
(* acknowledgement, although the user may skip it in between.              *)
THEOREM RetriesAreAcknowledged ==
    ASSUME OneExecutor
    PROVE  Spec => RetryIsAcknowledged
  <1>1. ExecutorInv /\ AloneInv /\ [Next]_vars
          => [\A o \in Ops \ Manual :
                (op[o].state = "WAITING_FOR_USER" /\ op'[o].state = "RUNNING")
                  => action[<<o, op[o].attempt>>] = "COMPLETED"]_vars
    BY RetryStep
  <1> QED
    BY <1>1, AloneHolds, PTL DEF Spec, RetryIsAcknowledged
=============================================================================
