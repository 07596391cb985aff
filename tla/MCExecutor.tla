----------------------------- MODULE MCExecutor -----------------------------
(***************************************************************************)
(* Small plans for model checking the executor.  Each plan is a sequence,  *)
(* its prerequisites and, for the Verify operation, the operations its     *)
(* rule matches.  ResumeSeq and ChainSeq have the shapes the planner       *)
(* emits; LiveSeq and RebootSeq have a RequireReboot operation, which the  *)
(* executor accepts and the planner does not emit.                         *)
(***************************************************************************)
EXTENDS Executor, TLC

CONSTANTS confirm, install, check, once, restart

Nothing == [o \in Ops |-> {}]

(* A confirmation, a mutation that may be retried, one that may            *)
(* not, and a Verify operation.  As add_verification_operations emits it,  *)
(* that one names the component's mutation only.                           *)
ResumeSeq == <<confirm, install, once, check>>
ResumePrereq == install :> {confirm} @@ once :> {install} @@ check :> {install} @@ Nothing
ResumeRelevant == check :> {install} @@ Nothing

ChainSeq == <<install, check>>
ChainPrereq == check :> {install} @@ Nothing
ChainRelevant == check :> {install} @@ Nothing

LiveSeq == <<confirm, install, restart>>
LivePrereq == install :> {confirm} @@ restart :> {install} @@ Nothing
LiveRelevant == Nothing

(* A plan that has to be resumed after its own reboot request.             *)
RebootSeq == <<install, restart>>
RebootPrereq == restart :> {install} @@ Nothing
RebootRelevant == Nothing
=============================================================================
