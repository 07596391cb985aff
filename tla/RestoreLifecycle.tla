-------------------------- MODULE RestoreLifecycle --------------------------
(***************************************************************************)
(* What a restore run promises, without processes, attempts or crashes:    *)
(* work happens only in an approved run, in an order that respects the     *)
(* prerequisites, is never undone, and the run is reported finished only   *)
(* when all of it is done.                                                 *)
(***************************************************************************)
CONSTANTS Ops, Prereq

VARIABLES
    approval,   \* the user's decision on the plan
    done,       \* operations completed or skipped
    finished    \* the run is reported COMPLETED

lifecycleVars == <<approval, done, finished>>

LifecycleInit == approval = "PENDING" /\ done = {} /\ finished = FALSE

Decide(s) ==
    /\ approval = "PENDING"
    /\ approval' = s
    /\ UNCHANGED <<done, finished>>

Complete(o) ==
    /\ approval = "APPROVED"
    /\ Prereq[o] \subseteq done
    /\ done' = done \cup {o}
    /\ UNCHANGED <<approval, finished>>

ReportFinished ==
    /\ done = Ops
    /\ finished' = TRUE
    /\ UNCHANGED <<approval, done>>

(* A later execution of the same run may report a different status.        *)
ReportUnfinished ==
    /\ finished' = FALSE
    /\ UNCHANGED <<approval, done>>

LifecycleNext ==
    \/ \E s \in {"APPROVED", "REJECTED"} : Decide(s)
    \/ \E o \in Ops : Complete(o)
    \/ ReportFinished
    \/ ReportUnfinished

LifecycleSpec == LifecycleInit /\ [][LifecycleNext]_lifecycleVars
=============================================================================
