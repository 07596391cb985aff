-------------------------- MODULE VerificationReport --------------------------
(***************************************************************************)
(* The report that is built after a run (reforge-restore, verification.rs, *)
(* build_report).  The engine keeps no state: it reads the journal rows of *)
(* the run, the manual actions and the facts of a fresh target scan, so a  *)
(* report is a function of the state here, and a behaviour is the run's    *)
(* rows changing between reports: operations start, settle, wait and are   *)
(* retried, the user answers, the target is scanned again.                 *)
(*                                                                         *)
(* A rule is a type, a subject (the package, path, variable, server...)    *)
(* and what it demands of it, "any" when the field is absent.  A stored    *)
(* result is a set of payloads: the result, its inner result and evidence. *)
(***************************************************************************)
EXTENDS Naturals, Sequences, FiniteSets, FiniteSetsExt, SequencesExt

CONSTANTS
    Plans,     \* [comps, selected, ops, actions]
    Facts,     \* sets of [type, subject, value]: what a target scan may find
    MaxSteps   \* bound on the number of changes

VARIABLES plan, facts, state, result, answer, steps

reportVars == <<plan, facts, state, result, answer, steps>>

Ops == DOMAIN plan.ops
Actions == DOMAIN plan.actions
Op(o) == plan.ops[o]

Settled == {"Completed", "Skipped"}
Broken == {"Failed", "Interrupted", "Cancelled"}
Unfinished == {"Pending", "Running"}

(* The operations of a plan are numbered, and wait for others of the plan. *)
PlanOK(p) ==
    /\ DOMAIN p.ops = 1..Len(p.ops) /\ Len(p.ops) \in Nat
    /\ \A o \in DOMAIN p.ops : p.ops[o].prereqs \in Seq(DOMAIN p.ops)
    /\ p.selected \in Seq(Nat)
ReportAssumption == \A p \in Plans : PlanOK(p)

ReportInit ==
    /\ plan \in Plans /\ facts \in Facts
    /\ state = [o \in Ops |-> "Pending"]
    /\ result = [o \in Ops |-> {}]
    /\ answer = [a \in Actions |-> "Pending"]
    /\ steps = 0

(***************************************************************************)
(* Which operations bear on a rule, and what their results prove.          *)
(***************************************************************************)
FileKinds == {"WriteFile", "MergeJson", "MergeToml"}

(* The kinds of operation that can establish a rule, and its subject.      *)
OperationMatchesRule(o, r) ==
    LET k == Op(o).kind IN
    CASE r.type = "Environment" ->
           \/ k = "SetUserEnvironment" /\ Op(o).subject = r.subject
           \/ k = "AppendUserPath" /\ r.subject = "PATH"
      [] r.type = "SecureTarget" -> k = "OpenManualAction" /\ Op(o).subject = r.subject
      [] OTHER ->
           /\ Op(o).subject = r.subject
           /\ k \in CASE r.type = "ProviderIdentity" -> {"InstallPackage"}
                      [] r.type \in {"File", "FileVersion", "BrowserArtifact"} -> FileKinds
                      [] r.type = "ConfigJson" -> {"MergeJson"}
                      [] r.type = "ConfigToml" -> {"MergeToml"}
                      [] r.type = "McpRegistration" -> {"RegisterMcp"}
                      [] r.type = "WslState" -> {"ImportWsl"}
                      [] r.type = "DockerImage" -> {"RestoreDockerImage"}
                      [] r.type = "DockerVolume" -> {"RestoreDockerVolume"}
           /\ r.type = "ProviderIdentity" => Op(o).want = r.want
           /\ r.type \in {"File", "WslState"} /\ r.want # "any" => Op(o).want = r.want

Digested(ps) == \E p \in ps : p.digest
Meets(value, want) == want = "any" \/ value = want

OperationProves(o, r) ==
    LET ps == result[o] IN
    CASE r.type = "ProviderIdentity" ->
           r.want # "pinned" /\ \E p \in ps : p.kind = "package" /\ p.subject = r.subject
                                             /\ Meets(p.value, r.want)
      [] r.type \in {"File", "BrowserArtifact"} -> Digested(ps)
      [] r.type = "FileVersion" -> \E p \in ps : p.value # "any" /\ Meets(p.value, r.want)
      [] r.type = "ConfigJson" -> Digested(ps) /\ \E p \in ps : p.kind = "json"
      [] r.type = "ConfigToml" -> Digested(ps) /\ \E p \in ps : p.kind = "toml"
      [] r.type = "Environment" ->
           r.want \notin {"secret", "redacted", "reference"}
           /\ \E p \in ps : p.subject = r.subject /\ p.value = r.want
      [] r.type \in {"McpRegistration", "DockerImage", "DockerVolume"} ->
           \E p \in ps : p.subject = r.subject /\ p.verified /\ ~p.reauth
      [] r.type = "WslState" ->
           \E p \in ps : p.subject = r.subject /\ p.verified /\ Meets(p.value, r.want)
      [] r.type = "SecureTarget" -> \E p \in ps : p.kind = "secure" /\ p.subject = r.subject

(* Facts the target scanner owns; files and configuration are not facts.   *)
TargetSatisfies(r) ==
    /\ r.type \in {"ProviderIdentity", "Environment", "WslState", "DockerImage", "DockerVolume"}
    /\ r.want \notin {"pinned", "secret", "redacted"}
    /\ \E x \in facts : x.type = r.type /\ x.subject = r.subject /\ Meets(x.value, r.want)

RuleRequiresReauth(r) ==
    \/ r.type = "SecureTarget"
    \/ r.type = "Environment" /\ r.want \in {"secret", "redacted"}
OperationRequiresReauth(o) == Op(o).secret \/ \E p \in result[o] : p.reauth
UnsupportedRestore(c) ==
    \/ plan.comps[c].strategy \in {"Manual", "MachineBound", "Unknown", "Partial"}
    \/ ~plan.comps[c].portable

(***************************************************************************)
(* The lifecycle of a component's operations and of its actions.           *)
(***************************************************************************)
OpsOf(c) == {o \in Ops : Op(o).comp = c}
ActionsOf(c) == {a \in Actions : plan.actions[a].comp = c}
WaitStatus(o) == IF state[o] = "WaitingForReboot" THEN "RebootRequired"
                 ELSE IF OperationRequiresReauth(o) THEN "ReauthRequired" ELSE "WaitingForUser"

(* The first prerequisite, in order, that explains why an operation has    *)
(* not finished; only operations of the component are looked at, and a     *)
(* cycle is a failure.                                                     *)
BlockedByPrerequisite(o, c) ==
    LET blocked[visiting \in SUBSET Ops] ==
            [p \in Ops |->
                LET pre == Op(p).prereqs
                    Why(q) == IF Op(q).comp # c \/ state[q] \in Settled THEN "none"
                              ELSE IF state[q] \in Broken THEN "Failed"
                              ELSE IF state[q] \in Unfinished THEN blocked[visiting \cup {p}][q]
                              ELSE WaitStatus(q)
                    explained == {i \in DOMAIN pre : Why(pre[i]) # "none"}
                IN IF p \in visiting THEN "Failed"
                   ELSE IF explained = {} THEN "none" ELSE Why(pre[Min(explained)])]
    IN blocked[{}][o]

(* Faulty variant: an unfinished operation is not counted.                 *)
OperationLifecycleLax(c) ==
    LET os == OpsOf(c)
        seen == {state[o] : o \in os}
    IN IF seen \cap Broken # {} THEN "Failed"
       ELSE IF \E o \in os : state[o] = "WaitingForUser" THEN "WaitingForUser"
       ELSE IF "WaitingForReboot" \in seen THEN "RebootRequired"
       ELSE IF seen = {"Skipped"} THEN "Skipped" ELSE "none"
(* Faulty variant: a settled sibling outweighs a broken operation.         *)
OperationLifecycleHidden(c) ==
    LET seen == {state[o] : o \in OpsOf(c)}
    IN IF seen \cap Settled # {} /\ seen \subseteq Settled \cup Broken THEN "none"
       ELSE IF seen \subseteq Settled THEN OperationLifecycleLax(c) ELSE "Failed"
OperationLifecycle(c) ==
    LET os == OpsOf(c)
        One(o) == CASE state[o] \in Broken -> "Failed"
                    [] state[o] \in Unfinished ->
                         LET b == BlockedByPrerequisite(o, c)
                         IN IF b = "none" THEN "Failed" ELSE b
                    [] state[o] \in Settled -> "none"
                    [] OTHER -> WaitStatus(o)
        all == {One(o) : o \in os}
    IN IF "Failed" \in all THEN "Failed"
       ELSE IF "ReauthRequired" \in all THEN "ReauthRequired"
       ELSE IF "RebootRequired" \in all THEN "RebootRequired"
       ELSE IF "WaitingForUser" \in all THEN "WaitingForUser"
       ELSE IF os # {} /\ \A o \in os : state[o] = "Skipped" THEN "Skipped" ELSE "none"

(* Faulty variant: a completed action is still waited for.                 *)
ManualActionLifecycleStuck(c) == IF ActionsOf(c) = {} THEN "none" ELSE "WaitingForUser"
ManualActionLifecycle(c) ==
    LET open == {a \in ActionsOf(c) : answer[a] \in {"Pending", "Acknowledged"}}
    IN IF \E a \in open : \E r \in plan.actions[a].rule : RuleRequiresReauth(r)
         THEN "ReauthRequired"
       ELSE IF open # {} THEN "WaitingForUser"
       ELSE IF \E a \in ActionsOf(c) : answer[a] = "Skipped" THEN "Skipped" ELSE "none"

(***************************************************************************)
(* One rule, one component, the report.                                    *)
(***************************************************************************)
EvaluateRule(r, c) ==
    LET relevant == {o \in OpsOf(c) : OperationMatchesRule(o, r)}
        open == {o \in relevant : state[o] \notin Settled}
        proofs == {o \in relevant : OperationProves(o, r)}
    IN IF OperationLifecycle(c) = "Failed" THEN "Failed"
       ELSE IF open # {}
         THEN IF state[Min(open)] \in Unfinished \cup Broken THEN "Failed" ELSE WaitStatus(Min(open))
       ELSE IF proofs # {}
         THEN IF state[Min(proofs)] = "Skipped" THEN "AlreadyPresent" ELSE "Verified"
       ELSE IF relevant = {} /\ TargetSatisfies(r) THEN "AlreadyPresent"
       ELSE IF RuleRequiresReauth(r) THEN "ReauthRequired"
       ELSE IF \E a \in ActionsOf(c) : r \in plan.actions[a].rule
                                      /\ answer[a] \in {"Pending", "Acknowledged"}
         THEN "WaitingForUser"
       ELSE IF relevant = {} /\ UnsupportedRestore(c) THEN "Unsupported" ELSE "Failed"

AggregateStatuses(ss) ==
    IF ss = {} \/ "Failed" \in ss THEN "Failed"
    ELSE IF "ReauthRequired" \in ss THEN "ReauthRequired"
    ELSE IF "RebootRequired" \in ss THEN "RebootRequired"
    ELSE IF "WaitingForUser" \in ss THEN "WaitingForUser"
    ELSE IF Cardinality(ss) = 1 THEN CHOOSE s \in ss : TRUE
    ELSE "PartiallyVerified"

(* Faulty variant: a proved rule outweighs what is still open.             *)
CombineComponentStatusProved(rules, ops, actions) ==
    IF rules \in {"Failed", "Verified", "AlreadyPresent"} THEN rules
    ELSE AggregateStatuses({rules, ops, actions} \ {"none", "Skipped"})
CombineComponentStatus(rules, ops, actions) ==
    LET life == {ops, actions} \ {"none"} IN
    CASE rules = "Failed" -> "Failed"
      [] rules # "Failed" /\ life = {} -> rules
      [] rules # "Failed" /\ life = {"Skipped"} ->
           (CASE rules = "AlreadyPresent" -> "AlreadyPresent"
              [] rules = "Verified" -> "PartiallyVerified"
              [] OTHER -> "Skipped")
      [] OTHER -> AggregateStatuses(life \ {"Skipped"})

RulesOf(c) ==
    plan.comps[c].rules
    \cup UNION {plan.actions[a].rule : a \in ActionsOf(c)}
    \cup UNION {Op(o).rules : o \in OpsOf(c)}

BuildComponentReport(c) ==
    IF c \notin DOMAIN plan.comps \/ RulesOf(c) = {} THEN "Failed"
    ELSE CombineComponentStatus(AggregateStatuses({EvaluateRule(r, c) : r \in RulesOf(c)}),
                                OperationLifecycle(c), ManualActionLifecycle(c))

(* The report's status and its counts; a duplicate selection is an error.  *)
BuildReport ==
    LET parts == [i \in DOMAIN plan.selected |-> BuildComponentReport(plan.selected[i])]
    IN IF Cardinality(Range(plan.selected)) # Len(plan.selected)
         THEN [status |-> "SchemaInvalid", components |-> <<>>]
         ELSE [status |-> AggregateStatuses(Range(parts)), components |-> parts]
ReportCounts(report, s) ==
    Cardinality({i \in DOMAIN report.components :
        IF s = "partial" THEN report.components[i] \in {"PartiallyVerified", "Skipped"}
        ELSE report.components[i] = s})
ReportExitCode(s) ==
    CASE s \in {"Verified", "AlreadyPresent"} -> 0
      [] s \in {"WaitingForUser", "ReauthRequired"} -> 3
      [] s = "RebootRequired" -> 6
      [] OTHER -> 1

(***************************************************************************)
(* Between two reports.                                                    *)
(***************************************************************************)
Payload(o) ==
    [kind |-> CASE Op(o).kind = "InstallPackage" -> "package"
                [] Op(o).kind = "MergeJson" -> "json"
                [] Op(o).kind = "MergeToml" -> "toml"
                [] Op(o).kind = "OpenManualAction" -> "secure"
                [] OTHER -> "file",
     subject |-> Op(o).subject, value |-> Op(o).want, digest |-> Op(o).kind \in FileKinds,
     verified |-> Op(o).kind \notin FileKinds, reauth |-> FALSE]
Reauth(o) == [Payload(o) EXCEPT !.verified = FALSE, !.reauth = TRUE]

Ready(o) == \A p \in Range(Op(o).prereqs) : state[p] \in Settled

(* The executor starts an operation whose prerequisites are settled, and   *)
(* a retry starts one that is waiting or broken.                           *)
Start(o) ==
    /\ steps < MaxSteps /\ Ready(o)
    /\ state[o] \notin Settled \cup {"Running"}
    /\ state' = [state EXCEPT ![o] = "Running"]
    /\ result' = [result EXCEPT ![o] = {}]
    /\ steps' = steps + 1
    /\ UNCHANGED <<plan, facts, answer>>

(* The attempt ends in any state the executor records.                     *)
Settle(o, s, ps) ==
    /\ state[o] = "Running"
    /\ s \in Settled \/ s = "WaitingForUser" \/ ps = {}
    /\ state' = [state EXCEPT ![o] = s]
    /\ result' = [result EXCEPT ![o] = ps]
    /\ UNCHANGED <<plan, facts, answer, steps>>

Answer(a, s) ==
    /\ steps < MaxSteps
    /\ answer[a] \in {"Pending", "Acknowledged"} /\ s # answer[a]
    /\ answer' = [answer EXCEPT ![a] = s]
    /\ steps' = steps + 1
    /\ UNCHANGED <<plan, facts, state, result>>

Rescan(f) ==
    /\ steps < MaxSteps /\ f # facts
    /\ facts' = f /\ steps' = steps + 1
    /\ UNCHANGED <<plan, state, result, answer>>

ReportNext ==
    \/ \E o \in Ops : Start(o)
    \/ \E o \in Ops, s \in Settled \cup Broken \cup {"WaitingForUser", "WaitingForReboot"} :
         \E ps \in {{}, {Payload(o)}, {Reauth(o)}} : Settle(o, s, ps)
    \/ \E a \in Actions, s \in {"Acknowledged", "Completed", "Skipped"} : Answer(a, s)
    \/ \E f \in Facts : Rescan(f)

ReportSpec == ReportInit /\ [][ReportNext]_reportVars

-----------------------------------------------------------------------------
(***************************************************************************)
(* Properties                                                              *)
(***************************************************************************)
SelectedOps == {o \in Ops : Op(o).comp \in Range(plan.selected)}

(* Exit code 0 promises that the restore is over: no selected component    *)
(* has an operation or an action left open, and each rule has its proof    *)
(* in the journal or in the facts of the target.                           *)
SuccessIsEarned ==
    LET report == BuildReport IN
    ReportExitCode(report.status) = 0 =>
        /\ ReportCounts(report, "Verified") + ReportCounts(report, "AlreadyPresent")
              = Len(plan.selected)
        /\ \A o \in SelectedOps : state[o] \in Settled
        /\ \A a \in Actions : plan.actions[a].comp \in Range(plan.selected)
                               => answer[a] \in {"Completed", "Skipped"}
        /\ \A c \in Range(plan.selected) : \A r \in RulesOf(c) :
               \/ \E o \in Ops : Op(o).comp = c /\ OperationMatchesRule(o, r) /\ OperationProves(o, r)
               \/ TargetSatisfies(r)

(* "A failed operation is never hidden by an independently matching        *)
(* target fact or by a successful sibling operation" (verification.rs), at *)
(* the level of the report.                                                *)
FailureIsReported ==
    (\E o \in SelectedOps : state[o] \in Broken) =>
        BuildReport.status \in {"Failed", "SchemaInvalid"}

(* A report that asks the user to come back has something to come back     *)
(* for: an operation that waits, an open action or a secret to supply.     *)
PauseIsReal ==
    BuildReport.status \in {"WaitingForUser", "ReauthRequired", "RebootRequired"} =>
        \/ \E o \in SelectedOps : state[o] \in {"WaitingForUser", "WaitingForReboot"}
        \/ \E a \in Actions : plan.actions[a].comp \in Range(plan.selected)
                              /\ answer[a] \in {"Pending", "Acknowledged"}
        \/ \E c \in Range(plan.selected) : \E r \in RulesOf(c) : RuleRequiresReauth(r)

(***************************************************************************)
(* Said by the code or its documents, and not kept (see the README)        *)
(***************************************************************************)
(* A run in which nothing broke and everything unfinished waits, itself or *)
(* through its prerequisites, for the user or a reboot is reported as a    *)
(* pause.                                                                  *)
PauseIsReported ==
    LET report == BuildReport
        waits == {o \in SelectedOps : state[o] \in {"WaitingForUser", "WaitingForReboot"}}
        behind == {o \in SelectedOps : state[o] = "Pending" /\ Range(Op(o).prereqs) \cap waits # {}}
    IN waits # {} /\ (\A o \in SelectedOps \ (waits \cup behind) :
                        state[o] = "Completed" /\ result[o] = {Payload(o)})
       => ReportExitCode(report.status) \in {3, 6}
=============================================================================
