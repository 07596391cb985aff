------------------------------- MODULE Vault --------------------------------
(***************************************************************************)
(* The life of a secret: collected from the sources the user approved,     *)
(* encrypted into the package's vault (reforge-package, vault.rs), and     *)
(* handed back on the target machine by SecretRestoreGate (reforge-        *)
(* restore, manual_actions.rs).  Sources and adapters are supplied by the  *)
(* embedding program; they may fail, and a restore may be tried again with *)
(* another adapter.                                                        *)
(*                                                                         *)
(* Identifiers are numbers in the order of ComponentId.  A value is the    *)
(* pair of its identifier and its length; a passphrase is its length and a *)
(* name; age encryption opens with the right key and with no other.        *)
(***************************************************************************)
EXTENDS Naturals, Sequences, FiniteSets, FiniteSetsExt, SequencesExt

CONSTANTS
    SecretIds,        \* identifiers of secrets
    Sources,          \* sequences of secret sources: [id, size, target, proven]
    Approvals,        \* sets of approved identifiers
    Passphrases,      \* [name, size]
    Adapters,         \* sets of targets an adapter proves secure
    MaxRecords, MaxValue, MaxPlain, MaxPass,
    MaxAttempts       \* bound on the restore attempts

(* SecretTarget, without names and paths.                                  *)
Targets == {"WindowsCredentialManager", "ApplicationKeyring", "EnvironmentVariable",
            "ConfigField", "Manual"}

(* Identifiers are ordered as numbers are, and a source is known by one.   *)
VaultAssumption ==
    /\ SecretIds \subseteq Nat /\ Approvals \subseteq SUBSET SecretIds
    /\ Sources \subseteq Seq([id : SecretIds, size : Nat, target : Targets, proven : BOOLEAN])
    /\ Adapters \subseteq SUBSET Targets

VARIABLES
    sources, approved,
    phase,      \* where the program is
    todo,       \* identifiers of the secrets still to collect, or to restore
    records,    \* the vault document
    pending,    \* PendingVault
    vault,      \* the vault in the package
    shown,      \* recovery identities displayed, in order
    attempt,    \* the current restore: adapter, selection, report
    written,    \* values an adapter wrote: [id, target, adapter]
    actions,    \* manual actions in the journal
    attempts    \* restores started

vaultVars == <<sources, approved, phase, todo, records, pending, vault, shown,
               attempt, written, actions, attempts>>

Source(id) == CHOOSE s \in Range(sources) : s.id = id
NoVault == [pass |-> "none", identity |-> 0, records |-> <<>>]
NoPending == [identity |-> 0, vault |-> NoVault, requested |-> FALSE, revealed |-> FALSE,
              acknowledged |-> FALSE, held |-> FALSE]
NoAttempt == [adapter |-> {}, selection |-> {}, restored |-> {}, manual |-> {}, result |-> "none"]
SourceIds == {s.id : s \in Range(sources)}
IdsOf(rs) == {r.id : r \in Range(rs)}

(* Both loops go by increasing identifier: over the approval, a BTreeSet,  *)
(* and over the records, which validate_and_normalize has sorted.          *)
First(id) == id \in todo /\ \A other \in todo : id <= other

VaultInit ==
    /\ sources \in Sources /\ approved \in Approvals
    /\ phase = "select" /\ todo = {} /\ records = <<>>
    /\ pending = NoPending /\ vault = NoVault /\ shown = <<>>
    /\ attempt = NoAttempt /\ written = {} /\ actions = {} /\ attempts = 0

Stop(code) ==
    /\ phase' = code
    /\ UNCHANGED <<sources, approved, todo, records, pending, vault, shown, attempt,
                   written, actions, attempts>>

(***************************************************************************)
(* collect_approved_vault                                                  *)
(***************************************************************************)
Select ==
    /\ phase = "select"
    /\ IF approved = {} THEN Stop("VaultRequired")
       ELSE IF Cardinality(approved) > MaxRecords THEN Stop("SecurityPolicy")
       ELSE IF Cardinality(SourceIds) # Len(sources) THEN Stop("SchemaInvalid")
       ELSE /\ phase' = "collect"
            /\ todo' = approved
            /\ UNCHANGED <<sources, approved, records, pending, vault, shown, attempt,
                           written, actions, attempts>>

(* Faulty variant: the target is kept whatever the source proves.          *)
CollectedTargetKept(s) == s.target
(* Plaintext targets are kept only with a proven policy.                   *)
CollectedTarget(s) ==
    IF s.target \in {"EnvironmentVariable", "ConfigField"} /\ ~s.proven THEN "Manual" ELSE s.target

RecordOf(id) == [id |-> id, size |-> Source(id).size, target |-> CollectedTarget(Source(id))]

(* Faulty variant: an empty or unavailable secret is passed over.          *)
CollectSkips(id) ==
    /\ phase = "collect" /\ First(id)
    /\ records' = IF id \in SourceIds /\ Source(id).size # 0
                  THEN Append(records, RecordOf(id)) ELSE records
    /\ todo' = todo \ {id}
    /\ UNCHANGED <<sources, approved, phase, pending, vault, shown, attempt,
                   written, actions, attempts>>

CollectNext(id) ==
    /\ phase = "collect" /\ First(id)
    /\ IF id \notin SourceIds THEN Stop("VaultRequired")
       ELSE IF Source(id).size = 0 THEN Stop("VaultRequired")
       ELSE IF Source(id).size > MaxValue THEN Stop("SecurityPolicy")
       ELSE /\ records' = Append(records, RecordOf(id))
            /\ todo' = todo \ {id}
            /\ UNCHANGED <<sources, approved, phase, pending, vault, shown, attempt,
                           written, actions, attempts>>

(* read_secret fails; its error text is discarded.                         *)
ReadFails(id) ==
    /\ phase = "collect" /\ First(id) /\ id \in SourceIds
    /\ Stop("OperationFailed")

(* VaultDocument.validate_and_normalize                                    *)
DocumentError(rs) ==
    IF rs = <<>> THEN "VaultRequired"
    ELSE IF Len(rs) > MaxRecords THEN "SecurityPolicy"
    ELSE IF Cardinality(IdsOf(rs)) # Len(rs) THEN "SchemaInvalid"
    ELSE IF FoldSeq(LAMBDA r, n : r.size + n, 0, rs) > MaxPlain THEN "SecurityPolicy"
    ELSE "none"

Collected ==
    /\ phase = "collect" /\ todo = {}
    /\ IF DocumentError(records) # "none" THEN Stop(DocumentError(records))
       ELSE /\ phase' = "document"
            /\ UNCHANGED <<sources, approved, todo, records, pending, vault, shown, attempt,
                           written, actions, attempts>>

PassphraseError(p) ==
    IF p.size = 0 THEN "VaultRequired" ELSE IF p.size > MaxPass THEN "SecurityPolicy" ELSE "none"

(* encrypt: a fresh identity opens the records, the passphrase opens it.   *)
Encrypt(p, wanted) ==
    /\ phase = "document"
    /\ IF PassphraseError(p) # "none" THEN Stop(PassphraseError(p))
       ELSE /\ phase' = "pending"
            /\ pending' = [identity |-> 1, requested |-> wanted, revealed |-> FALSE,
                           acknowledged |-> FALSE, held |-> wanted,
                           vault |-> [pass |-> p.name, identity |-> 1, records |-> records]]
            /\ UNCHANGED <<sources, approved, todo, records, vault, shown, attempt,
                           written, actions, attempts>>

(***************************************************************************)
(* PendingVault: take_recovery_identity, acknowledge, finish               *)
(***************************************************************************)
(* Faulty variant: the identity may be displayed again.                    *)
TakeRecoveryAgain ==
    /\ phase = "pending" /\ pending.requested /\ Len(shown) < 2
    /\ pending' = [pending EXCEPT !.revealed = TRUE]
    /\ shown' = Append(shown, pending.identity)
    /\ UNCHANGED <<sources, approved, phase, todo, records, vault, attempt, written,
                   actions, attempts>>

TakeRecovery ==
    /\ phase = "pending" /\ pending.requested /\ ~pending.revealed /\ pending.held
    /\ pending' = [pending EXCEPT !.revealed = TRUE, !.held = FALSE]
    /\ shown' = Append(shown, pending.identity)
    /\ UNCHANGED <<sources, approved, phase, todo, records, vault, attempt, written,
                   actions, attempts>>

(* Faulty variant: acknowledging does not wait for the display.            *)
AcknowledgeUnseen ==
    /\ phase = "pending" /\ pending.requested
    /\ pending' = [pending EXCEPT !.acknowledged = TRUE]
    /\ UNCHANGED <<sources, approved, phase, todo, records, vault, shown, attempt,
                   written, actions, attempts>>

Acknowledge ==
    /\ phase = "pending" /\ pending.requested /\ pending.revealed
    /\ pending' = [pending EXCEPT !.acknowledged = TRUE]
    /\ UNCHANGED <<sources, approved, phase, todo, records, vault, shown, attempt,
                   written, actions, attempts>>

Finish ==
    /\ phase = "pending"
    /\ pending.requested => pending.acknowledged
    /\ vault' = pending.vault
    /\ phase' = "packaged"
    /\ UNCHANGED <<sources, approved, todo, records, pending, shown, attempt,
                   written, actions, attempts>>

(***************************************************************************)
(* SecretRestoreGate                                                       *)
(***************************************************************************)
Ended(result) == [attempt EXCEPT !.result = result]

(* Decrypting: with a passphrase, or with an identity that was displayed.  *)
Opens(key) ==
    \/ key.pass = vault.pass
    \/ key.identity = vault.identity

Keys ==
    {[pass |-> p.name, identity |-> 0] : p \in {q \in Passphrases : q.size \in 1..MaxPass}}
    \cup {[pass |-> "other", identity |-> i] : i \in Range(shown) \cup {99}}

(* Faulty variant: what the vault lacks is skipped when it is reached.     *)
SelectionErrorLate(key, sel) ==
    IF sel = {} THEN "VaultRequired"
    ELSE IF ~Opens(key) THEN "VaultDecryptFailed" ELSE "none"
SelectionError(key, sel) ==
    IF sel = {} THEN "VaultRequired"
    ELSE IF ~Opens(key) THEN "VaultDecryptFailed"
    ELSE IF ~ sel \subseteq IdsOf(vault.records) THEN "VaultRequired"
    ELSE "none"

StartRestore(key, sel, adapter) ==
    /\ phase = "packaged" /\ attempts < MaxAttempts
    /\ attempts' = attempts + 1
    /\ LET error == SelectionError(key, sel)
       IN /\ attempt' = [NoAttempt EXCEPT !.adapter = adapter, !.selection = sel,
                                          !.result = error]
          /\ todo' = IF error = "none" THEN IdsOf(vault.records) ELSE {}
          /\ phase' = IF error = "none" THEN "restore" ELSE "packaged"
    /\ UNCHANGED <<sources, approved, records, pending, vault, shown, written, actions>>

SecureTarget(t) == t # "Manual" /\ t \in attempt.adapter

(* The record of the vault that the loop has reached.                      *)
Reached(r) == r \in Range(vault.records) /\ First(r.id)

SkipRecord(r) ==
    /\ phase = "restore" /\ Reached(r) /\ r.id \notin attempt.selection
    /\ todo' = todo \ {r.id}
    /\ UNCHANGED <<sources, approved, phase, records, pending, vault, shown, attempt,
                   written, actions, attempts>>

(* No proven target: a manual action, no value.                            *)
DeferRecord(r) ==
    /\ phase = "restore" /\ Reached(r)
    /\ r.id \in attempt.selection /\ ~SecureTarget(r.target)
    /\ actions' = actions \cup {r.id}
    /\ attempt' = [attempt EXCEPT !.manual = @ \cup {r.id}]
    /\ todo' = todo \ {r.id}
    /\ UNCHANGED <<sources, approved, phase, records, pending, vault, shown, written, attempts>>

(* What an adapter that proves the record's target makes of it.            *)
WrittenWith(r) ==
    [id |-> r.id, size |-> r.size, target |-> r.target, adapter |-> attempt.adapter]

RestoreRecord(r) ==
    /\ phase = "restore" /\ Reached(r)
    /\ r.id \in attempt.selection /\ SecureTarget(r.target)
    /\ written' = written \cup {WrittenWith(r)}
    /\ attempt' = [attempt EXCEPT !.restored = @ \cup {r.id}]
    /\ todo' = todo \ {r.id}
    /\ UNCHANGED <<sources, approved, phase, records, pending, vault, shown, actions, attempts>>

(* The adapter fails, after or before it wrote the value, or the queue of  *)
(* manual actions does: the report is lost, earlier values stay written.   *)
RecordFails(r) ==
    /\ phase = "restore" /\ Reached(r) /\ r.id \in attempt.selection
    /\ \/ written' = written
       \/ SecureTarget(r.target) /\ written' = written \cup {WrittenWith(r)}
    /\ attempt' = Ended("OperationFailed")
    /\ phase' = "packaged" /\ todo' = {}
    /\ UNCHANGED <<sources, approved, records, pending, vault, shown, actions, attempts>>

Report ==
    /\ phase = "restore" /\ todo = {}
    /\ attempt' = Ended("ok") /\ phase' = "packaged"
    /\ UNCHANGED <<sources, approved, todo, records, pending, vault, shown, written,
                   actions, attempts>>

Codes == {"VaultRequired", "SecurityPolicy", "SchemaInvalid", "OperationFailed"}

VaultStep ==
    \/ Select \/ Collected
    \/ \E id \in SecretIds : CollectNext(id) \/ ReadFails(id)
    \/ \E p \in Passphrases, w \in BOOLEAN : Encrypt(p, w)
    \/ TakeRecovery \/ Acknowledge \/ Finish
    \/ \E k \in Keys, s \in SUBSET SecretIds, a \in Adapters : StartRestore(k, s, a)
    \/ \E r \in Range(vault.records) :
          SkipRecord(r) \/ DeferRecord(r) \/ RestoreRecord(r) \/ RecordFails(r)
    \/ Report

VaultNext ==
    \/ VaultStep
    \/ (phase \in Codes \/ (phase = "packaged" /\ attempts = MaxAttempts)) /\ UNCHANGED vaultVars

VaultSpec == VaultInit /\ [][VaultNext]_vaultVars

(***************************************************************************)
(* Properties                                                              *)
(***************************************************************************)
(* The state of the vault and of the current restore is of its type.       *)
VaultTypeOK ==
    /\ phase \in Codes \cup {"select", "collect", "document", "pending", "packaged", "restore"}
    /\ attempt.restored \cup attempt.manual \subseteq attempt.selection
    /\ Len(shown) <= 1

(* A secret leaves the vault only if it was approved for collection, and   *)
(* only to a target that the adapter used proved secure; a plaintext       *)
(* target had to be proven by the source as well.                          *)
OnlyProvenTargets ==
    \A w \in written :
        /\ w.id \in approved
        /\ w.target # "Manual" /\ w.target \in w.adapter
        /\ w.target \in {"EnvironmentVariable", "ConfigField"} =>
               Source(w.id).proven /\ Source(w.id).target = w.target

(* A restore that reports success accounts for every selected secret,      *)
(* written or left as a manual action, and for nothing else.               *)
ReportIsComplete ==
    attempt.result = "ok" =>
        /\ attempt.restored \cup attempt.manual = attempt.selection
        /\ attempt.restored \cap attempt.manual = {}
        /\ attempt.manual \subseteq actions
        /\ \A id \in attempt.restored : \E w \in written : w.id = id

(* A package with a recovery identity is written only after the user has   *)
(* seen the identity that opens it.                                        *)
RecoveryWasSeen ==
    vault # NoVault /\ pending.requested => shown = <<vault.identity>>

(* The values in the package are those of the approved sources, whatever   *)
(* order they were collected in.                                           *)
VaultIsTheApproval ==
    vault # NoVault =>
        /\ IdsOf(vault.records) = approved
        /\ \A r \in Range(vault.records) : r.size = Source(r.id).size
=============================================================================
