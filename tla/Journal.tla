------------------------------ MODULE Journal ------------------------------
(***************************************************************************)
(* The durable restore journal (crates/reforge-restore/src/journal.rs):    *)
(* the rows of one run and every transaction that changes them.  All       *)
(* tables are keyed by run, so one run is modelled.  Each action below is  *)
(* one IMMEDIATE SQLite transaction: it commits as a whole or, when its    *)
(* guard is false, returns an error and changes nothing.                   *)
(*                                                                         *)
(* Abstracted: identifiers, timestamps, redacted texts, the event log.  Of *)
(* an operation's result, error and backup columns only one bit is kept,   *)
(* whether the stored result is usable verification evidence.              *)
(***************************************************************************)
EXTENDS Naturals

CONSTANTS
    Ops,         \* the operations of the plan
    Manual,      \* those of kind OpenManualAction
    MaxAttempt   \* largest attempt number (u32::MAX in the code)

ASSUME ManualAssumption == Manual \subseteq Ops
ASSUME MaxAttemptAssumption == MaxAttempt \in Nat

VARIABLES
    runStatus,   \* runs.status
    approval,    \* runs.approval_state
    op,          \* operations: state, attempt, evidence bit
    action       \* manual_actions: a partial function from ids to states

journalVars == <<runStatus, approval, op, action>>

RunStatus == {"PLANNED", "WAITING_FOR_APPROVAL", "RUNNING", "WAITING_FOR_USER",
              "WAITING_FOR_REBOOT", "COMPLETED", "PARTIAL", "FAILED", "CANCELLED",
              "INTERRUPTED"}
ApprovalState == {"PENDING", "APPROVED", "REJECTED"}
OperationState == {"PENDING", "RUNNING", "COMPLETED", "SKIPPED", "FAILED",
                   "WAITING_FOR_USER", "WAITING_FOR_REBOOT", "CANCELLED",
                   "INTERRUPTED"}
ActionState == {"PENDING", "ACKNOWLEDGED", "COMPLETED", "SKIPPED"}

Done == {"COMPLETED", "SKIPPED"}

JournalOperation == [state : OperationState, attempt : 0..MaxAttempt,
                     proof : BOOLEAN]

(***************************************************************************)
(* Action <<o, 0>> is the plan's own action of the manual operation o;     *)
(* <<o, n>> is "operation-blocker:o:n", the action of o's n-th attempt.    *)
(***************************************************************************)
ActionId == Ops \X (0..MaxAttempt)

JournalTypeOK ==
    /\ runStatus \in RunStatus
    /\ approval \in ApprovalState
    /\ op \in [Ops -> JournalOperation]
    /\ DOMAIN action \subseteq ActionId
    /\ action \in [DOMAIN action -> ActionState]

-----------------------------------------------------------------------------
(* create_run_record: the run, its operations and its planned actions.     *)
JournalInit ==
    /\ runStatus = "PLANNED"
    /\ approval = "PENDING"
    /\ op = [o \in Ops |-> [state |-> "PENDING", attempt |-> 0, proof |-> FALSE]]
    /\ action = [a \in Manual \X {0} |-> "PENDING"]

(* Faulty variant: an approval may be withdrawn after the run started.     *)
AnyApprovalTransition(current, next) == current # "REJECTED" \/ current = next

ValidApprovalTransition(current, next) ==
    current = "PENDING" \/ current = next

SetApproval(s) ==
    /\ ValidApprovalTransition(approval, s)
    /\ approval' = s
    /\ UNCHANGED <<runStatus, op, action>>

(* Any status may overwrite any other; only RUNNING asks for approval.     *)
SetRunStatus(s) ==
    /\ s = "RUNNING" => approval = "APPROVED"
    /\ runStatus' = s
    /\ UNCHANGED <<approval, op, action>>

CanTransition(o, s) ==
    /\ s = "RUNNING" => /\ approval = "APPROVED"
                        /\ op[o].state # "RUNNING"
                        /\ op[o].state \notin Done
                        /\ op[o].attempt < MaxAttempt
    /\ op[o].state \in Done => s = op[o].state

(* Repeating a verified state leaves the row as it is, results included.   *)
Transitioned(o, s, proof) ==
    IF op[o].state \in Done THEN op[o]
    ELSE IF s = "RUNNING"
         THEN [state |-> s, attempt |-> op[o].attempt + 1, proof |-> FALSE]
         ELSE [state |-> s, attempt |-> op[o].attempt, proof |-> proof]

(* A run that failed, was cancelled or completed keeps that status while   *)
(* its operations run again.                                               *)
Restartable == {"PLANNED", "WAITING_FOR_APPROVAL", "WAITING_FOR_USER",
                "WAITING_FOR_REBOOT", "INTERRUPTED"}

TransitionOperation(o, s, proof) ==
    /\ CanTransition(o, s)
    /\ op' = [op EXCEPT ![o] = Transitioned(o, s, proof)]
    /\ runStatus' = IF s = "RUNNING" /\ runStatus \in Restartable
                    THEN "RUNNING" ELSE runStatus
    /\ UNCHANGED <<approval, action>>

AddManualAction(a) ==
    /\ a \notin DOMAIN action
    /\ action' = [b \in DOMAIN action \cup {a} |->
                    IF b = a THEN "PENDING" ELSE action[b]]
    /\ UNCHANGED <<runStatus, approval, op>>

ValidManualActionTransition(current, next) ==
    \/ current = next
    \/ current = "PENDING" /\ next \in {"ACKNOWLEDGED", "SKIPPED"}
    \/ current = "ACKNOWLEDGED" /\ next \in {"COMPLETED", "SKIPPED"}

CanSetAction(a, s) ==
    a \in DOMAIN action /\ ValidManualActionTransition(action[a], s)

SetManualActionState(a, s) ==
    /\ CanSetAction(a, s)
    /\ action' = [action EXCEPT ![a] = s]
    /\ UNCHANGED <<runStatus, approval, op>>

(* Every open of the journal by any process runs this transaction, whether *)
(* or not the process that left the rows RUNNING is still alive.           *)
RecoverRunningOperations ==
    /\ op' = [o \in Ops |-> IF op[o].state = "RUNNING"
                            THEN [op[o] EXCEPT !.state = "INTERRUPTED"]
                            ELSE op[o]]
    /\ runStatus' = IF runStatus = "RUNNING" \/ \E o \in Ops : op[o].state = "RUNNING"
                    THEN "INTERRUPTED" ELSE runStatus
    /\ UNCHANGED <<approval, action>>

(* The journal serves its clients in any order and with any arguments.     *)
JournalNext ==
    \/ \E s \in ApprovalState : SetApproval(s)
    \/ \E s \in RunStatus : SetRunStatus(s)
    \/ \E o \in Ops, s \in OperationState, proof \in BOOLEAN :
            TransitionOperation(o, s, proof)
    \/ \E a \in ActionId : AddManualAction(a)
    \/ \E a \in ActionId, s \in ActionState : SetManualActionState(a, s)
    \/ RecoverRunningOperations

JournalSpec == JournalInit /\ [][JournalNext]_journalVars

-----------------------------------------------------------------------------
(* Whatever its clients ask for, no operation has ever been started, and   *)
(* no run been RUNNING, without the user's approval, and an approval once  *)
(* given is not taken back.                                                *)
StartedIsApproved ==
    /\ \A o \in Ops : (op[o].attempt > 0 \/ op[o].state = "RUNNING")
                        => approval = "APPROVED"
    /\ runStatus = "RUNNING" => approval = "APPROVED"

(* Verified rows are final, evidence included, for every client: resume,   *)
(* recovery and late writers cannot reopen them.                           *)
DoneIsFinal ==
    [][\A o \in Ops : op[o].state \in Done => op'[o] = op[o]]_journalVars
=============================================================================
