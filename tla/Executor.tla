------------------------------ MODULE Executor ------------------------------
(***************************************************************************)
(* The restore executor (crates/reforge-restore/src/executor.rs), its      *)
(* manual-action handler (manual_actions.rs) and the service around it     *)
(* (crates/reforge-cli/src/main.rs), running over the Journal.             *)
(*                                                                         *)
(* A process opens the journal, scans the target, takes a snapshot of the  *)
(* operation rows and walks the plan.  Every journal transaction, and      *)
(* every effect on the target, is a step of its own: other processes, the  *)
(* user and a crash may come between any two of them.  The typed handlers  *)
(* are abstracted to their outcome and to whether they changed the target. *)
(***************************************************************************)
EXTENDS Journal, Sequences

CONSTANTS
    Procs,           \* processes that may execute the run
    OpSeq,           \* RestorePlan.operations, in plan order
    Prereq,          \* Operation.prerequisites
    Verify,          \* operations of kind Verify
    Reboot,          \* operations of kind RequireReboot
    Relevant,        \* for a Verify operation: the prerequisites its rule matches
    NonIdempotent,   \* operations with non_idempotent set
    Halting,         \* manual actions that stop the operations after them
    Fingerprinted,   \* operations whose effect enters the target fingerprint
    Present,         \* operations already satisfied on the target
    MaxFaults,       \* bound: crashes, cancellations, handler and journal errors
    MaxBlocks        \* bound: outcomes that ask for the user

ASSUME PlanAssumption ==
    /\ OpSeq \in Seq(Ops)
    /\ \A o \in Ops : \E i \in 1..Len(OpSeq) : OpSeq[i] = o
    /\ Prereq \in [Ops -> SUBSET Ops]
    /\ Relevant \in [Ops -> SUBSET Ops]
    /\ Verify \subseteq Ops /\ Reboot \subseteq Ops /\ NonIdempotent \subseteq Ops
    /\ Manual \cap Verify = {} /\ Manual \cap Reboot = {} /\ Verify \cap Reboot = {}
ASSUME BoundAssumption == MaxFaults \in Nat /\ MaxBlocks \in Nat

VARIABLES
    ex,        \* per process: where it is in execute_with_progress
    effects,   \* how often each operation's effect reached the target
    faults,    \* faults so far
    blocks     \* user blocks so far

vars == <<runStatus, approval, op, action, ex, effects, faults, blocks>>
world == <<effects, faults, blocks>>

Labels == {"down", "idle", "validate", "loop", "complete", "ready", "probe",
           "mark", "run", "queue", "record", "status"}

(* out is the write a process is about to make: the operation's state and  *)
(* evidence bit, and the run status to set afterwards before returning.    *)
Outcome == [state : OperationState, proof : BOOLEAN, then : RunStatus \cup {"NONE"}]

NoOutcome == [state |-> "PENDING", proof |-> FALSE, then |-> "NONE"]
NoRows == [o \in Ops |-> [state |-> "PENDING", attempt |-> 0, proof |-> FALSE]]

At(label) == [pc |-> label, idx |-> 1, snap |-> NoRows, waiting |-> FALSE,
              cancel |-> FALSE, fresh |-> FALSE, refused |-> FALSE, out |-> NoOutcome]

Process == [pc : Labels, idx : 1..(Len(OpSeq) + 1), snap : [Ops -> JournalOperation],
            waiting : BOOLEAN, cancel : BOOLEAN, fresh : BOOLEAN, refused : BOOLEAN,
            out : Outcome]

ExecutorTypeOK ==
    /\ JournalTypeOK
    /\ ex \in [Procs -> Process]
    /\ effects \in [Ops -> Nat]
    /\ faults \in 0..MaxFaults
    /\ blocks \in 0..MaxBlocks

Init ==
    /\ JournalInit
    /\ ex = [p \in Procs |-> At("down")]
    /\ effects = [o \in Ops |-> 0]
    /\ faults = 0
    /\ blocks = 0

-----------------------------------------------------------------------------
Cur(p) == OpSeq[ex[p].idx]
Row(p) == ex[p].snap[Cur(p)]
Active(p) == ex[p].pc \notin {"down", "idle"}

Becomes(p, r) == ex' = [ex EXCEPT ![p] = r]
Goto(p, label) == Becomes(p, [ex[p] EXCEPT !.pc = label])
Leave(p, refused) == Becomes(p, [At("idle") EXCEPT !.refused = refused])
Return(p) == Leave(p, ex[p].refused)
Advance(p, waiting) ==
    Becomes(p, [ex[p] EXCEPT !.pc = "loop", !.idx = @ + 1, !.out = NoOutcome,
                             !.waiting = @ \/ waiting])

(* Prepare the write of the current operation's next state.                *)
Write(p, label, state, proof, then) ==
    Becomes(p, [ex[p] EXCEPT !.pc = label,
                  !.out = [state |-> state, proof |-> proof, then |-> then]])
PersistFailure(p) == Write(p, "record", "FAILED", FALSE, "FAILED")
CancelledReport(p) == Write(p, "status", "PENDING", FALSE, "CANCELLED")
CancelledOperation(p) == Write(p, "record", "CANCELLED", FALSE, "CANCELLED")

(* states.insert: the snapshot follows the process's own writes.            *)
Remember(p, row) == [ex[p] EXCEPT !.snap[Cur(p)] = row]

Fault == faults < MaxFaults /\ faults' = faults + 1

-----------------------------------------------------------------------------
(* Process lifecycle.                                                      *)

(* Journal::open at process start.                                         *)
OpenJournal(p) ==
    /\ ex[p].pc = "down"
    /\ RecoverRunningOperations
    /\ Goto(p, "idle")
    /\ UNCHANGED world

Quit(p) ==
    /\ ex[p].pc = "idle"
    /\ Becomes(p, At("down"))
    /\ UNCHANGED <<journalVars, world>>

(* Power loss or a killed process: only the journal and the target remain. *)
Crash(p) ==
    /\ Active(p)
    /\ Fault
    /\ Becomes(p, At("down"))
    /\ UNCHANGED <<journalVars, effects, blocks>>

(* Another command opens the same journal file while executors run.        *)
OtherCommandOpens ==
    /\ RecoverRunningOperations
    /\ UNCHANGED <<ex, world>>

(* The scan that precedes restore and resume: the rescanned fingerprint    *)
(* equals the plan's while no fingerprinted effect reached the target.     *)
Launch(p) ==
    /\ ex[p].pc = "idle"
    /\ Becomes(p, [At("validate") EXCEPT
                     !.fresh = \A o \in Fingerprinted : effects[o] = 0,
                     !.refused = ex[p].refused])
    /\ UNCHANGED <<journalVars, world>>

(* require_approved and validate_execution; the snapshot is taken here.    *)
Validate(p) ==
    /\ ex[p].pc = "validate"
    /\ IF approval = "APPROVED" /\ ex[p].fresh
       THEN Becomes(p, [ex[p] EXCEPT !.pc = "loop", !.snap = op])
       ELSE Return(p)
    /\ UNCHANGED <<journalVars, world>>

Cancel(p) ==
    /\ Active(p) /\ ~ex[p].cancel
    /\ Fault
    /\ Becomes(p, [ex[p] EXCEPT !.cancel = TRUE])
    /\ UNCHANGED <<journalVars, effects, blocks>>

-----------------------------------------------------------------------------
(* The top of the loop: reads only, deciding what happens to the operation.*)

AtOp(p) == ex[p].pc = "loop" /\ ex[p].idx <= Len(OpSeq)

(* blocked_operation_action_state: the action bound to the last attempt.   *)
Blocker(p) == <<Cur(p), Row(p).attempt>>
IsBlocked(p) ==
    /\ Row(p).state = "WAITING_FOR_USER"
    /\ Cur(p) \notin Manual
    /\ Blocker(p) \in DOMAIN action

(* Faulty variant: a prerequisite that was merely attempted counts.        *)
PrerequisitesAttempted(p) ==
    \A q \in Prereq[Cur(p)] : ex[p].snap[q].state # "PENDING"

PrerequisitesComplete(p) ==
    \A q \in Prereq[Cur(p)] : ex[p].snap[q].state \in Done
HasWaitingForUserPrerequisite(p) ==
    \E q \in Prereq[Cur(p)] : ex[p].snap[q].state = "WAITING_FOR_USER"

VisitDone(p) ==
    /\ AtOp(p) /\ Row(p).state \in Done
    /\ Advance(p, FALSE)
    /\ UNCHANGED <<journalVars, world>>

VisitPendingBlocker(p) ==
    /\ AtOp(p) /\ IsBlocked(p) /\ action[Blocker(p)] = "PENDING"
    /\ Advance(p, TRUE)
    /\ UNCHANGED <<journalVars, world>>

VisitSkippedBlocker(p) ==
    /\ AtOp(p) /\ IsBlocked(p) /\ action[Blocker(p)] = "SKIPPED"
    /\ Write(p, "record", "SKIPPED", FALSE, "NONE")
    /\ UNCHANGED <<journalVars, world>>

(* Faulty variant: a blocked operation is retried without looking at the   *)
(* user's answer.                                                          *)
UnblockedUnasked(p) == AtOp(p) /\ Row(p).state \notin Done

Unblocked(p) ==
    /\ AtOp(p)
    /\ Row(p).state \notin Done
    /\ IsBlocked(p) => action[Blocker(p)] \in {"ACKNOWLEDGED", "COMPLETED"}

(* Only a direct prerequisite that waits for the user excuses the wait.    *)
VisitWaitingPrerequisite(p) ==
    /\ Unblocked(p) /\ ~PrerequisitesComplete(p)
    /\ HasWaitingForUserPrerequisite(p)
    /\ Advance(p, TRUE)
    /\ UNCHANGED <<journalVars, world>>

VisitUnmetPrerequisite(p) ==
    /\ Unblocked(p) /\ ~PrerequisitesComplete(p)
    /\ ~HasWaitingForUserPrerequisite(p)
    /\ PersistFailure(p)
    /\ UNCHANGED <<journalVars, world>>

VisitCancelled(p) ==
    /\ Unblocked(p) /\ PrerequisitesComplete(p) /\ ex[p].cancel
    /\ CancelledReport(p)
    /\ UNCHANGED <<journalVars, world>>

Eligible(p) == Unblocked(p) /\ PrerequisitesComplete(p) /\ ~ex[p].cancel

(* Target or package facts no longer satisfy Operation.precondition.       *)
VisitPreconditionFails(p) ==
    /\ Eligible(p)
    /\ Fault
    /\ PersistFailure(p)
    /\ UNCHANGED <<journalVars, effects, blocks>>

(* Faulty variant: only an interrupted attempt counts as an earlier one.   *)
RetryForbiddenAfterCrash(p) ==
    Cur(p) \in NonIdempotent /\ Row(p).state = "INTERRUPTED"

RetryForbidden(p) ==
    /\ Cur(p) \in NonIdempotent
    /\ Row(p).state # "PENDING" \/ Row(p).attempt > 0

VisitForbiddenRetry(p) ==
    /\ Eligible(p) /\ RetryForbidden(p)
    /\ Write(p, "record", "FAILED", FALSE, "WAITING_FOR_USER")
    /\ UNCHANGED <<journalVars, world>>

VisitReady(p) ==
    /\ Eligible(p) /\ ~RetryForbidden(p)
    /\ Goto(p, IF IsBlocked(p) /\ action[Blocker(p)] = "ACKNOWLEDGED"
               THEN "complete" ELSE "ready")
    /\ UNCHANGED <<journalVars, world>>

-----------------------------------------------------------------------------
(* Executing one operation.                                                *)

(* Consume an acknowledgement that was read earlier: the blocker of a      *)
(* retried operation, or the planned action of a manual one.  The user may *)
(* have skipped the action in between.                                     *)
Acknowledged(p) == IF Cur(p) \in Manual THEN <<Cur(p), 0>> ELSE Blocker(p)
ActionRefused(p) ==
    IF Cur(p) \in Manual /\ ex[p].cancel THEN CancelledOperation(p) ELSE PersistFailure(p)

CompleteAction(p) ==
    /\ ex[p].pc = "complete"
    /\ IF CanSetAction(Acknowledged(p), "COMPLETED")
       THEN /\ SetManualActionState(Acknowledged(p), "COMPLETED")
            /\ IF Cur(p) \in Manual
               THEN Write(p, "record", "COMPLETED", FALSE, "NONE")
               ELSE Goto(p, "ready")
       ELSE ActionRefused(p) /\ UNCHANGED journalVars
    /\ UNCHANGED world

Ready(p) ==
    /\ ex[p].pc = "ready"
    /\ Goto(p, IF Cur(p) \in Verify THEN "mark" ELSE "probe")
    /\ UNCHANGED <<journalVars, world>>

(* Faulty variant: a resume does not count as the reboot it was waiting    *)
(* for.                                                                    *)
SatisfiedWithoutReboot(o) ==
    IF o \in Manual THEN action[<<o, 0>>] = "SKIPPED"
    ELSE o \notin Reboot /\ (effects[o] > 0 \/ o \in Present)

(* What is_satisfied may find on the target or in the journal.             *)
Satisfied(o) ==
    IF o \in Manual THEN action[<<o, 0>>] = "SKIPPED"
    ELSE IF o \in Reboot THEN op[o].state = "WAITING_FOR_REBOOT"
    ELSE effects[o] > 0 \/ o \in Present

(* A planned action or a reboot is decided by the journal; the other       *)
(* handlers may also fail to recognise an effect that is there.            *)
Decided(o) == o \in Manual \cup Reboot

Probe(p) ==
    /\ ex[p].pc = "probe"
    /\ \/ /\ ex[p].cancel
          /\ CancelledReport(p)
       \/ /\ ~ex[p].cancel /\ Satisfied(Cur(p))
          /\ Write(p, "record", "SKIPPED", ~Decided(Cur(p)), "NONE")
       \/ /\ ~ex[p].cancel /\ (Decided(Cur(p)) => ~Satisfied(Cur(p)))
          /\ Goto(p, "mark")
    /\ UNCHANGED <<journalVars, world>>

ProbeError(p) ==
    /\ ex[p].pc = "probe"
    /\ Fault
    /\ PersistFailure(p)
    /\ UNCHANGED <<journalVars, effects, blocks>>

(* Faulty variant: the handler runs although the journal refused the start.*)
MarkRunningUnchecked(p) ==
    /\ ex[p].pc = "mark"
    /\ IF CanTransition(Cur(p), "RUNNING")
       THEN TransitionOperation(Cur(p), "RUNNING", FALSE)
       ELSE UNCHANGED journalVars
    /\ Goto(p, "run")
    /\ UNCHANGED world

MarkRunning(p) ==
    /\ ex[p].pc = "mark"
    /\ IF CanTransition(Cur(p), "RUNNING")
       THEN /\ TransitionOperation(Cur(p), "RUNNING", FALSE)
            /\ Becomes(p, [Remember(p, Transitioned(Cur(p), "RUNNING", FALSE))
                              EXCEPT !.pc = "run"])
       ELSE PersistFailure(p) /\ UNCHANGED journalVars
    /\ UNCHANGED world

Running(p) == ex[p].pc = "run" /\ ~ex[p].cancel

RunCancelled(p) ==
    /\ ex[p].pc = "run" /\ ex[p].cancel
    /\ CancelledOperation(p)
    /\ UNCHANGED <<journalVars, world>>

(* Faulty variant: completed states are taken for evidence.                *)
ProvenByState(p) ==
    /\ Relevant[Cur(p)] # {}
    /\ \A r \in Relevant[Cur(p)] : ex[p].snap[r].state \in Done

(* operation_verification_proof, over the process's snapshot.              *)
Proven(p) ==
    /\ \A r \in Relevant[Cur(p)] : ex[p].snap[r].state \in Done
    /\ \E r \in Relevant[Cur(p)] : ex[p].snap[r].proof

RunVerify(p) ==
    /\ Running(p) /\ Cur(p) \in Verify
    /\ \/ /\ Proven(p) \/ (Relevant[Cur(p)] = {} /\ Cur(p) \in Present)
          /\ Write(p, "record", "COMPLETED", TRUE, "NONE")
       \/ /\ ~Proven(p) /\ (Relevant[Cur(p)] = {} => Cur(p) \notin Present)
          /\ PersistFailure(p)
    /\ UNCHANGED <<journalVars, world>>

(* ManualActionHandler::execute for OpenManualAction.                      *)
RunManual(p) ==
    /\ Running(p) /\ Cur(p) \in Manual
    /\ LET s == action[<<Cur(p), 0>>] IN
         \/ s = "ACKNOWLEDGED" /\ Goto(p, "complete")
         \/ s \in Done /\ Write(p, "record", s, FALSE, "NONE")
    /\ UNCHANGED <<journalVars, world>>

AskUser == blocks < MaxBlocks /\ blocks' = blocks + 1

RunManualPending(p) ==
    /\ Running(p) /\ Cur(p) \in Manual
    /\ action[<<Cur(p), 0>>] = "PENDING"
    /\ AskUser
    /\ Write(p, "record", "WAITING_FOR_USER", FALSE,
             IF Cur(p) \in Halting THEN "WAITING_FOR_USER" ELSE "NONE")
    /\ UNCHANGED <<journalVars, effects, faults>>

RunReboot(p) ==
    /\ Running(p) /\ Cur(p) \in Reboot
    /\ Write(p, "record", "WAITING_FOR_REBOOT", FALSE, "WAITING_FOR_REBOOT")
    /\ UNCHANGED <<journalVars, world>>

Mutates(p) == Running(p) /\ Cur(p) \notin Manual \cup Reboot \cup Verify
Apply(o) == effects' = [effects EXCEPT ![o] = @ + 1]

RunCompletes(p) ==
    /\ Mutates(p)
    /\ Apply(Cur(p))
    /\ Write(p, "record", "COMPLETED", TRUE, "NONE")
    /\ UNCHANGED <<journalVars, faults, blocks>>

(* The handler looks again before it acts and finds the effect in place.   *)
RunSkips(p) ==
    /\ Mutates(p) /\ Satisfied(Cur(p))
    /\ Write(p, "record", "SKIPPED", TRUE, "NONE")
    /\ UNCHANGED <<journalVars, world>>

(* Faulty variant: the wait is recorded without queueing its action.       *)
RunBlocksUnqueued(p) ==
    /\ Mutates(p)
    /\ AskUser
    /\ Write(p, "record", "WAITING_FOR_USER", FALSE, "NONE")
    /\ UNCHANGED <<journalVars, effects, faults>>

(* The handler asks for the user, before or after it changed the target.   *)
RunBlocks(p) ==
    /\ Mutates(p)
    /\ AskUser
    /\ Apply(Cur(p)) \/ UNCHANGED effects
    /\ Write(p, "queue", "WAITING_FOR_USER", FALSE, "NONE")
    /\ UNCHANGED <<journalVars, faults>>

(* Policy skip, error, interruption, cancellation or a reboot request; the *)
(* handler may have changed the target before it returned.                 *)
RunFaults(p) ==
    /\ Mutates(p)
    /\ Fault
    /\ \/ Write(p, "record", "SKIPPED", FALSE, "NONE") /\ UNCHANGED effects
       \/ /\ \/ PersistFailure(p)
             \/ CancelledOperation(p)
             \/ Write(p, "record", "INTERRUPTED", FALSE, "INTERRUPTED")
             \/ Write(p, "record", "WAITING_FOR_REBOOT", FALSE, "WAITING_FOR_REBOOT")
          /\ Apply(Cur(p)) \/ UNCHANGED effects
    /\ UNCHANGED <<journalVars, blocks>>

(* queue_blocked_operation_action: ensure the action of this attempt       *)
(* before the operation's row says WAITING_FOR_USER.                       *)
QueueBlocker(p) ==
    /\ ex[p].pc = "queue"
    /\ IF Blocker(p) \in DOMAIN action THEN UNCHANGED journalVars
                                       ELSE AddManualAction(Blocker(p))
    /\ Goto(p, "record")
    /\ UNCHANGED world

(* Faulty variant: the outcome overwrites whatever the row says.           *)
RecordUnchecked(p) ==
    /\ ex[p].pc = "record"
    /\ op' = [op EXCEPT ![Cur(p)].state = ex[p].out.state]
    /\ Return(p)
    /\ UNCHANGED <<runStatus, approval, action, effects, faults, blocks>>

(* Persist the outcome; a row another process has verified refuses it.     *)
Record(p) ==
    /\ ex[p].pc = "record"
    /\ LET out == ex[p].out
           new == Transitioned(Cur(p), out.state, out.proof)
           kept == Remember(p, new)
       IN IF CanTransition(Cur(p), out.state)
          THEN /\ TransitionOperation(Cur(p), out.state, out.proof)
               /\ Becomes(p, IF out.then # "NONE"
                    THEN [kept EXCEPT !.pc = "status"]
                    ELSE [kept EXCEPT !.pc = "loop", !.idx = @ + 1, !.out = NoOutcome,
                            !.waiting = @ \/ out.state = "WAITING_FOR_USER"])
          ELSE Return(p) /\ UNCHANGED journalVars
    /\ UNCHANGED world

(* Faulty variant: the run's status is not updated on the way out.         *)
SetStatusForgotten(p) ==
    /\ ex[p].pc = "status"
    /\ Return(p)
    /\ UNCHANGED <<journalVars, world>>

SetStatus(p) ==
    /\ ex[p].pc = "status"
    /\ SetRunStatus(ex[p].out.then)
    /\ Return(p)
    /\ UNCHANGED world

(* Faulty variant: the end of the loop is taken for the end of the work.   *)
FinishUnconditionally(p) ==
    /\ ex[p].pc = "loop" /\ ex[p].idx > Len(OpSeq)
    /\ SetRunStatus("COMPLETED")
    /\ Return(p)
    /\ UNCHANGED world

Finish(p) ==
    /\ ex[p].pc = "loop" /\ ex[p].idx > Len(OpSeq)
    /\ SetRunStatus(IF \/ ex[p].waiting
                       \/ \E o \in Ops : ex[p].snap[o].state = "WAITING_FOR_USER"
                    THEN "WAITING_FOR_USER" ELSE "COMPLETED")
    /\ Return(p)
    /\ UNCHANGED world

(* A journal call fails and writes nothing.  Before and inside the handler *)
(* this fails the operation; elsewhere execute_with_progress returns the   *)
(* journal's error at once and leaves the row or the run as it is.         *)
JournalFails(p) ==
    /\ Fault
    /\ \/ ex[p].pc = "validate" /\ Return(p)
       \/ ex[p].pc \in {"loop", "record", "status"} /\ Leave(p, TRUE)
       \/ ex[p].pc = "complete" /\ ActionRefused(p)
       \/ ex[p].pc \in {"mark", "queue"} /\ PersistFailure(p)
       \/ Running(p) /\ Cur(p) \in Manual /\ PersistFailure(p)
    /\ UNCHANGED <<journalVars, effects, blocks>>

-----------------------------------------------------------------------------
(* The user, from any front end and at any time.                           *)
Decide ==
    /\ \E s \in {"APPROVED", "REJECTED"} : approval # s /\ SetApproval(s)
    /\ UNCHANGED <<ex, world>>

Acknowledge(a) ==
    /\ a \in DOMAIN action /\ action[a] # "ACKNOWLEDGED"
    /\ SetManualActionState(a, "ACKNOWLEDGED")
    /\ UNCHANGED <<ex, world>>

Skip(a) ==
    /\ a \in DOMAIN action /\ action[a] # "SKIPPED"
    /\ SetManualActionState(a, "SKIPPED")
    /\ UNCHANGED <<ex, world>>

-----------------------------------------------------------------------------
Visit(p) ==
    \/ VisitDone(p) \/ VisitPendingBlocker(p) \/ VisitSkippedBlocker(p)
    \/ VisitWaitingPrerequisite(p) \/ VisitUnmetPrerequisite(p)
    \/ VisitCancelled(p) \/ VisitPreconditionFails(p)
    \/ VisitForbiddenRetry(p) \/ VisitReady(p)

Run(p) ==
    \/ RunCancelled(p) \/ RunVerify(p) \/ RunReboot(p)
    \/ RunManual(p) \/ RunManualPending(p)
    \/ RunCompletes(p) \/ RunSkips(p) \/ RunBlocks(p) \/ RunFaults(p)

Execute(p) ==
    \/ Validate(p) \/ Visit(p) \/ CompleteAction(p) \/ Ready(p)
    \/ Probe(p) \/ ProbeError(p) \/ MarkRunning(p) \/ Run(p)
    \/ QueueBlocker(p) \/ Record(p) \/ SetStatus(p) \/ Finish(p)

Next ==
    \/ \E p \in Procs : \/ OpenJournal(p) \/ Quit(p) \/ Crash(p)
                        \/ Launch(p) \/ Cancel(p) \/ Execute(p) \/ JournalFails(p)
    \/ OtherCommandOpens
    \/ Decide
    \/ \E a \in ActionId : Acknowledge(a) \/ Skip(a)

Spec == Init /\ [][Next]_vars
-----------------------------------------------------------------------------
(* Properties.                                                             *)

(* An operation is started, completed or skipped only after every          *)
(* prerequisite has completed or was skipped: the executor decides on its  *)
(* snapshot (prerequisites_complete), which other processes outdate.       *)
StartedAfterPrerequisites ==
    \A o \in Ops : (op[o].attempt > 0 \/ op[o].state \in Done)
                    => \A q \in Prereq[o] : op[q].state \in Done

(* A run is COMPLETED only when all of its operations are verified: no     *)
(* path through the loop loses a wait, whichever process wrote the status. *)
CompletedMeansDone ==
    runStatus = "COMPLETED" => \A o \in Ops : op[o].state \in Done

(* A Verify operation completes only on evidence that is still in the      *)
(* journal: all the operations its rule matches are done and one of them   *)
(* stored a proof.                                                         *)
VerifiedOnEvidence ==
    \A o \in Verify : (op[o].state = "COMPLETED" /\ Relevant[o] # {})
        => /\ \A r \in Relevant[o] : op[r].state \in Done
           /\ \E r \in Relevant[o] : op[r].proof

(* The target is changed only under a journalled attempt of an approved    *)
(* run: mark_operation_running commits before the handler executes.        *)
EffectsAreJournalled ==
    \A o \in Ops : /\ effects[o] <= op[o].attempt
                   /\ effects[o] > 0 => approval = "APPROVED"

(* An operation that waits for the user has its attempt's action in the    *)
(* queue; without it a resume would retry the operation unasked.           *)
BlockedHasAction ==
    \A o \in Ops \ Manual : op[o].state = "WAITING_FOR_USER"
                            => <<o, op[o].attempt>> \in DOMAIN action

(* Work marked non-idempotent reaches the target at most once, whatever    *)
(* crashes, cancellations and resumes happen.                              *)
NonIdempotentOnce == \A o \in NonIdempotent : effects[o] <= 1

(* An executor that returned leaves neither the run nor an operation       *)
(* RUNNING, unless a journal call on its way out was refused; then opening *)
(* the journal again settles both.                                         *)
ReturnsSettled ==
    \A p \in Procs : ex[p].pc = "idle" /\ ~ex[p].refused =>
        /\ runStatus # "RUNNING"
        /\ \A o \in Ops : op[o].state # "RUNNING"

(* A blocked operation is retried only after the user acknowledged the     *)
(* action of exactly that attempt, and the acknowledgement was consumed.   *)
RetryIsAcknowledged ==
    [][\A o \in Ops \ Manual :
         (op[o].state = "WAITING_FOR_USER" /\ op'[o].state = "RUNNING")
           => action[<<o, op[o].attempt>>] = "COMPLETED"]_vars

(* Any interleaving of executors, users and crashes is a behaviour of the  *)
(* abstract run: the refinement mapping reads it off the journal.          *)
Lifecycle == INSTANCE RestoreLifecycle WITH
    done <- {o \in Ops : op[o].state \in Done},
    finished <- runStatus = "COMPLETED"
ImplementsLifecycle == Lifecycle!LifecycleSpec

(***************************************************************************)
(* Fairness: a live process keeps running; the user approves or rejects,   *)
(* resolves the actions presented to him and keeps reopening and resuming  *)
(* the run.  MaxFaults makes faults stop eventually.                       *)
(***************************************************************************)
ResolvePending(a) ==
    a \in DOMAIN action /\ action[a] = "PENDING" /\ (Acknowledge(a) \/ Skip(a))

FairSpec ==
    /\ Spec
    /\ \A p \in Procs : /\ WF_vars(Execute(p))
                         /\ WF_vars(OpenJournal(p))
                         /\ SF_vars(Launch(p))
    /\ \A a \in ActionId : WF_vars(ResolvePending(a))

(* An approved run is eventually COMPLETED, through crashes, handler       *)
(* errors, user blocks and reboots.                                        *)
ApprovedRunCompletes == (approval = "APPROVED") ~> (runStatus = "COMPLETED")

(***************************************************************************)
(* Said by the code or its documents, and not kept (see the README)        *)
(***************************************************************************)
(* An operation whose current attempt's action the user has skipped while  *)
(* nothing was executing is never started again.                           *)
SkippedAtRest(a) ==
    /\ a \in DOMAIN action /\ action[a] = "SKIPPED"
    /\ a[1] \notin Manual /\ op[a[1]].attempt = a[2]
    /\ \A p \in Procs : ~Active(p)
SkipIsHonoured ==
    \A a \in ActionId : [](SkippedAtRest(a) => [](op[a[1]].attempt = a[2]))

(* While the only thing wrong is that the user has not acted yet, the run  *)
(* is not reported FAILED.                                                 *)
WaitingIsNotFailure ==
    (faults = 0 /\ \E o \in Ops : op[o].state = "WAITING_FOR_USER")
        => runStatus # "FAILED"
=============================================================================
