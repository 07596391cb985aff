--------------------------- MODULE PackageProofs ---------------------------
(***************************************************************************)
(* Safety of the vault of secrets and of the creation of packages, for any *)
(* sources, approvals, adapters, inventories, selections and files.        *)
(*                                                                         *)
(* The argument for the vault.  Its records are those of the approved      *)
(* sources as soon as nothing is left to collect, and the document goes    *)
(* unchanged from the collection over the pending vault into the package   *)
(* (Collection, Sealing).  A restore has at every moment dealt with what   *)
(* it selected and no longer has before it, and with nothing twice         *)
(* (Restoring).  The argument for creation.  What has left the work list   *)
(* was screened as it was read (CreationInv), so an edit after the review  *)
(* makes no difference; the only temporary file belongs to an artifact     *)
(* that is still on the list.                                              *)
(***************************************************************************)
EXTENDS MCPackage, SequenceTheorems, TLAPS

-----------------------------------------------------------------------------
(* The inductive invariant of the vault.                                   *)

RecordType == [id : SecretIds, size : Nat, target : Secrets!Targets]
Names == {p.name : p \in Passphrases} \cup {"none"}
Results == {"none", "ok", "OperationFailed", "VaultRequired", "VaultDecryptFailed"}
VaultType == [pass : Names, identity : Nat, records : Seq(RecordType)]
PendingType ==
    [identity : Nat, vault : VaultType, requested : BOOLEAN, revealed : BOOLEAN,
     acknowledged : BOOLEAN, held : BOOLEAN]
AttemptType ==
    [adapter : SUBSET Secrets!Targets, selection : SUBSET SecretIds, restored : SUBSET SecretIds,
     manual : SUBSET SecretIds, result : Results]
Phases == Secrets!Codes \cup {"select", "collect", "document", "pending", "packaged", "restore"}

Types ==
    /\ sources \in Sources /\ approved \in Approvals /\ phase \in Phases
    /\ todo \subseteq SecretIds /\ records \in Seq(RecordType)
    /\ pending \in PendingType /\ vault \in VaultType /\ attempt \in AttemptType

(* A record is what its approved source gave.                              *)
Approved(r) ==
    /\ r.id \in approved
    /\ r.size = Secrets!Source(r.id).size
    /\ r.target = Secrets!CollectedTarget(Secrets!Source(r.id))

Collection ==
    /\ \A i \in DOMAIN records : Approved(records[i])
    /\ phase = "collect" => Secrets!IdsOf(records) \cup todo = approved
    /\ phase \in {"document", "pending", "packaged", "restore"} => Secrets!IdsOf(records) = approved

(* The document in the vault, and the display of its recovery identity.    *)
Sealing ==
    /\ phase = "pending" => pending.vault.records = records /\ pending.vault.identity = pending.identity
    /\ phase \in {"packaged", "restore"} =>
          /\ vault = pending.vault
          /\ vault.records = records /\ vault.identity = pending.identity
          /\ pending.requested => pending.revealed
    /\ phase \notin {"packaged", "restore"} => vault = Secrets!NoVault
    /\ pending.acknowledged => pending.revealed
    /\ shown = IF pending.revealed THEN <<pending.identity>> ELSE <<>>
    /\ phase \notin {"pending", "packaged", "restore"} => ~pending.revealed

(* A restore under way has dealt with what it selected and no longer has   *)
(* before it.                                                              *)
Restoring ==
    /\ attempt.restored \cup attempt.manual \subseteq attempt.selection
    /\ attempt.restored \cap attempt.manual = {}
    /\ attempt.manual \subseteq actions
    /\ \A id \in attempt.restored : \E w \in written : w.id = id
    /\ phase = "restore" =>
          /\ attempt.result = "none"
          /\ attempt.selection \subseteq attempt.restored \cup attempt.manual \cup todo
          /\ todo \cap (attempt.restored \cup attempt.manual) = {}
    /\ attempt.result = "ok" => attempt.selection = attempt.restored \cup attempt.manual

VaultInv == Types /\ Collection /\ Sealing /\ Restoring /\ Secrets!OnlyProvenTargets

-----------------------------------------------------------------------------
(* Sequences of records.                                                   *)

LEMMA IdsOfSequence ==
    ASSUME NEW rs
    PROVE  Secrets!IdsOf(rs) = {rs[i].id : i \in DOMAIN rs}
  BY DEF Secrets!IdsOf, Secrets!Range

(* The record of one more secret.                                          *)
LEMMA OneMore ==
    ASSUME NEW rs \in Seq(RecordType), NEW r \in RecordType
    PROVE  /\ Append(rs, r) \in Seq(RecordType)
           /\ DOMAIN Append(rs, r) = DOMAIN rs \cup {Len(rs) + 1}
           /\ \A i \in DOMAIN rs : Append(rs, r)[i] = rs[i]
           /\ Append(rs, r)[Len(rs) + 1] = r
           /\ Secrets!IdsOf(Append(rs, r)) = Secrets!IdsOf(rs) \cup {r.id}
  <1>1. /\ Append(rs, r) \in Seq(RecordType)
        /\ DOMAIN Append(rs, r) = DOMAIN rs \cup {Len(rs) + 1}
        /\ \A i \in DOMAIN rs : Append(rs, r)[i] = rs[i]
        /\ Append(rs, r)[Len(rs) + 1] = r
    OBVIOUS
  <1>2. PICK new : new = Append(rs, r)
    OBVIOUS
  <1>3. {new[i].id : i \in DOMAIN new} = {rs[i].id : i \in DOMAIN rs} \cup {r.id}
    BY <1>1, <1>2
  <1> QED
    BY <1>1, <1>2, <1>3, IdsOfSequence

(* A source of an identifier that has one.                                 *)
LEMMA SourceFacts ==
    ASSUME Types, NEW id \in Secrets!SourceIds
    PROVE  Secrets!Source(id) \in [id : SecretIds, size : Nat, target : Secrets!Targets, proven : BOOLEAN]
  <1>1. \E s \in Secrets!Range(sources) : s.id = id
    BY DEF Secrets!SourceIds
  <1>2. Secrets!Source(id) \in Secrets!Range(sources)
    BY <1>1 DEF Secrets!Source
  <1> DEFINE S == [id : SecretIds, size : Nat, target : Secrets!Targets, proven : BOOLEAN]
  <1>3. sources \in Seq(S)
    BY SecretsAssumption DEF Secrets!VaultAssumption, Types
  <1> HIDE DEF S
  <1>4. PICK i \in DOMAIN sources : Secrets!Source(id) = sources[i]
    BY <1>2 DEF Secrets!Range
  <1>5. Secrets!Source(id) \in S
    BY <1>3, <1>4
  <1> QED
    BY <1>5 DEF S

LEMMA RecordFacts ==
    ASSUME Types, NEW id \in Secrets!SourceIds, id \in SecretIds
    PROVE  Secrets!RecordOf(id) \in RecordType
  <1>1. PICK s : s = Secrets!Source(id)
    OBVIOUS
  <1>2. s.size \in Nat /\ s.target \in Secrets!Targets
    BY <1>1, SourceFacts
  <1>3. Secrets!CollectedTarget(s) \in Secrets!Targets
    BY <1>2 DEF Secrets!CollectedTarget, Secrets!Targets
  <1> QED
    BY <1>1, <1>2, <1>3 DEF Secrets!RecordOf, RecordType

-----------------------------------------------------------------------------
(* The vault, action by action.                                            *)

LEMMA VaultInitInv == Secrets!VaultInit => VaultInv
  <1> SUFFICES ASSUME Secrets!VaultInit
               PROVE  VaultInv
    OBVIOUS
  <1>1. Secrets!NoVault \in VaultType
    BY DEF Secrets!NoVault, VaultType, Names
  <1>2. Secrets!NoPending \in PendingType
    BY <1>1 DEF Secrets!NoPending, PendingType
  <1>3. Secrets!NoAttempt \in AttemptType
    BY DEF Secrets!NoAttempt, AttemptType, Results
  <1>4. Types
    BY <1>1, <1>2, <1>3 DEF Secrets!VaultInit, Types, Phases
  <1>5. Collection /\ Sealing
    BY DEF Secrets!VaultInit, Collection, Sealing, Secrets!NoPending
  <1>6. Restoring /\ Secrets!OnlyProvenTargets
    BY DEF Secrets!VaultInit, Restoring, Secrets!NoAttempt, Secrets!OnlyProvenTargets
  <1> QED
    BY <1>4, <1>5, <1>6 DEF VaultInv

(* An error ends the collection; nothing else changes.                     *)
LEMMA StopKeeps ==
    ASSUME VaultInv, NEW code \in Secrets!Codes, Secrets!Stop(code),
           phase \in {"select", "collect", "document"}
    PROVE  VaultInv'
  <1>1. code \notin {"collect", "document", "pending", "packaged", "restore"}
    BY DEF Secrets!Codes
  <1>2. Types'
    BY DEF VaultInv, Types, Secrets!Stop, Phases
  <1>3. Collection' /\ Sealing'
    BY <1>1 DEF VaultInv, Collection, Sealing, Secrets!Stop, Approved, Secrets!Source,
                Secrets!Range, Secrets!IdsOf, Secrets!CollectedTarget, Secrets!NoVault
  <1>4. Restoring' /\ Secrets!OnlyProvenTargets'
    BY <1>1 DEF VaultInv, Restoring, Secrets!Stop, Secrets!OnlyProvenTargets, Secrets!Source, Secrets!Range
  <1> QED
    BY <1>2, <1>3, <1>4 DEF VaultInv

(* What the properties of records mention stays as it is.                  *)
LEMMA ApprovedIsStable ==
    ASSUME UNCHANGED <<sources, approved>>, NEW r, Approved(r)
    PROVE  Approved(r)'
  BY DEF Approved, Secrets!Source, Secrets!Range, Secrets!CollectedTarget

LEMMA ProvenIsStable ==
    ASSUME UNCHANGED <<sources, approved, written>>, Secrets!OnlyProvenTargets
    PROVE  Secrets!OnlyProvenTargets'
  BY DEF Secrets!OnlyProvenTargets, Secrets!Source, Secrets!Range

LEMMA SelectKeeps ==
    ASSUME VaultInv, Secrets!Select
    PROVE  VaultInv'
  <1>1. CASE \E code \in Secrets!Codes : Secrets!Stop(code)
    BY <1>1, StopKeeps DEF Secrets!Select
  <1>2. CASE /\ phase = "select" /\ phase' = "collect" /\ todo' = approved
             /\ UNCHANGED <<sources, approved, records, pending, vault, shown, attempt,
                            written, actions, attempts>>
    <2>1. Types'
      BY <1>2, SecretsAssumption DEF VaultInv, Types, Phases, Secrets!VaultAssumption
    <2>2. Secrets!IdsOf(records) \subseteq approved
      BY IdsOfSequence DEF VaultInv, Collection, Approved
    <2>3. Collection'
      BY <1>2, <2>2, ApprovedIsStable DEF VaultInv, Collection
    <2>4. Sealing' /\ Restoring'
      BY <1>2 DEF VaultInv, Sealing, Restoring, Secrets!NoVault
    <2> QED
      BY <2>1, <2>3, <2>4, <1>2, ProvenIsStable DEF VaultInv
  <1> QED
    BY <1>1, <1>2 DEF Secrets!Select, Secrets!Codes

LEMMA CollectKeeps ==
    ASSUME VaultInv, NEW id \in SecretIds, Secrets!CollectNext(id)
    PROVE  VaultInv'
  <1>1. CASE \E code \in Secrets!Codes : Secrets!Stop(code)
    BY <1>1, StopKeeps DEF Secrets!CollectNext
  <1>2. CASE /\ phase = "collect" /\ id \in todo /\ id \in Secrets!SourceIds
             /\ records' = Append(records, Secrets!RecordOf(id)) /\ todo' = todo \ {id}
             /\ UNCHANGED <<sources, approved, phase, pending, vault, shown, attempt,
                            written, actions, attempts>>
    <2>1. PICK r : r = Secrets!RecordOf(id)
      OBVIOUS
    <2>2. r \in RecordType /\ r.id = id
      BY <1>2, <2>1, RecordFacts DEF VaultInv, Secrets!RecordOf
    <2>3. id \in approved
      BY <1>2 DEF VaultInv, Collection
    <2>4. Approved(r)
      BY <2>1, <2>2, <2>3 DEF Approved, Secrets!RecordOf
    <2>5. PICK rs : rs = records
      OBVIOUS
    <2>6. rs \in Seq(RecordType)
      BY <2>5 DEF VaultInv, Types
    <2>7. /\ records' \in Seq(RecordType)
          /\ DOMAIN records' = DOMAIN rs \cup {Len(rs) + 1}
          /\ \A i \in DOMAIN rs : records'[i] = rs[i]
          /\ records'[Len(rs) + 1] = r
          /\ Secrets!IdsOf(records') = Secrets!IdsOf(rs) \cup {id}
      BY <1>2, <2>1, <2>2, <2>5, <2>6, OneMore
    <2>8. Types'
      BY <1>2, <2>7 DEF VaultInv, Types
    <2>9. ASSUME NEW i \in DOMAIN records'
          PROVE  Approved(records[i])'
      <3>1. PICK q : q = records'[i]
        OBVIOUS
      <3>2. Approved(q)
        BY <2>4, <2>5, <2>7, <3>1 DEF VaultInv, Collection
      <3>3. Approved(q)'
        BY <1>2, <3>2, ApprovedIsStable
      <3> QED
        BY <3>1, <3>3 DEF Approved
    <2>10. Collection'
      BY <1>2, <2>5, <2>7, <2>9 DEF VaultInv, Collection
    <2>11. Sealing' /\ Restoring'
      BY <1>2 DEF VaultInv, Sealing, Restoring, Secrets!NoVault
    <2> QED
      BY <2>8, <2>10, <2>11, <1>2, ProvenIsStable DEF VaultInv
  <1> QED
    BY <1>1, <1>2 DEF Secrets!CollectNext, Secrets!Codes, Secrets!First

LEMMA CollectedKeeps ==
    ASSUME VaultInv, Secrets!Collected
    PROVE  VaultInv'
  <1>1. Secrets!DocumentError(records) \in Secrets!Codes \cup {"none"}
    BY DEF Secrets!DocumentError, Secrets!Codes
  <1>2. CASE Secrets!Stop(Secrets!DocumentError(records)) /\ Secrets!DocumentError(records) # "none"
    <2>1. PICK code : code = Secrets!DocumentError(records)
      OBVIOUS
    <2>2. code \in Secrets!Codes /\ Secrets!Stop(code)
      BY <1>1, <1>2, <2>1 DEF Secrets!Stop
    <2> QED
      BY <2>2, StopKeeps DEF Secrets!Collected
  <1>3. CASE /\ phase = "collect" /\ todo = {} /\ phase' = "document"
             /\ UNCHANGED <<sources, approved, todo, records, pending, vault, shown, attempt,
                            written, actions, attempts>>
    <2>1. Types'
      BY <1>3 DEF VaultInv, Types, Phases
    <2>2. Collection'
      BY <1>3, ApprovedIsStable DEF VaultInv, Collection
    <2>3. Sealing' /\ Restoring'
      BY <1>3 DEF VaultInv, Sealing, Restoring, Secrets!NoVault
    <2> QED
      BY <2>1, <2>2, <2>3, <1>3, ProvenIsStable DEF VaultInv
  <1> QED
    BY <1>2, <1>3 DEF Secrets!Collected

LEMMA EncryptKeeps ==
    ASSUME VaultInv, NEW p \in Passphrases, NEW wanted \in BOOLEAN, Secrets!Encrypt(p, wanted)
    PROVE  VaultInv'
  <1>1. Secrets!PassphraseError(p) \in Secrets!Codes \cup {"none"}
    BY DEF Secrets!PassphraseError, Secrets!Codes
  <1>2. CASE Secrets!Stop(Secrets!PassphraseError(p)) /\ Secrets!PassphraseError(p) # "none"
    BY <1>1, <1>2, StopKeeps DEF Secrets!Encrypt
  <1>3. CASE /\ phase = "document" /\ phase' = "pending"
             /\ pending' = [identity |-> 1, requested |-> wanted, revealed |-> FALSE,
                            acknowledged |-> FALSE, held |-> wanted,
                            vault |-> [pass |-> p.name, identity |-> 1, records |-> records]]
             /\ UNCHANGED <<sources, approved, todo, records, vault, shown, attempt,
                            written, actions, attempts>>
    <2>1. PICK v : v = [pass |-> p.name, identity |-> 1, records |-> records]
      OBVIOUS
    <2>2. v \in VaultType /\ v.records = records /\ v.identity = 1
      BY <2>1 DEF VaultInv, Types, VaultType, Names
    <2>3. pending' = [identity |-> 1, requested |-> wanted, revealed |-> FALSE,
                      acknowledged |-> FALSE, held |-> wanted, vault |-> v]
      BY <1>3, <2>1
    <2>4. /\ pending' \in PendingType /\ pending'.vault = v /\ pending'.identity = 1
          /\ ~pending'.revealed /\ ~pending'.acknowledged
      BY <2>2, <2>3 DEF PendingType
    <2>5. Types'
      BY <1>3, <2>4 DEF VaultInv, Types, Phases
    <2>6. Collection'
      BY <1>3, ApprovedIsStable DEF VaultInv, Collection
    <2>7. shown = <<>>
      BY <1>3 DEF VaultInv, Sealing
    <2>8. Sealing'
      BY <1>3, <2>2, <2>4, <2>7 DEF VaultInv, Sealing, Secrets!NoVault
    <2>9. Restoring'
      BY <1>3 DEF VaultInv, Restoring
    <2> QED
      BY <2>5, <2>6, <2>8, <2>9, <1>3, ProvenIsStable DEF VaultInv
  <1> QED
    BY <1>2, <1>3 DEF Secrets!Encrypt

LEMMA TakeRecoveryKeeps ==
    ASSUME VaultInv, Secrets!TakeRecovery
    PROVE  VaultInv'
  <1>1. /\ phase = "pending" /\ ~pending.revealed
        /\ pending' = [pending EXCEPT !.revealed = TRUE, !.held = FALSE]
        /\ shown' = Append(shown, pending.identity)
        /\ UNCHANGED <<sources, approved, phase, todo, records, vault, attempt, written,
                       actions, attempts>>
    BY DEF Secrets!TakeRecovery
  <1>2. /\ pending' \in PendingType /\ pending'.revealed
        /\ pending'.vault = pending.vault /\ pending'.identity = pending.identity
        /\ pending'.acknowledged = pending.acknowledged /\ pending'.requested = pending.requested
    BY <1>1 DEF VaultInv, Types, PendingType
  <1>3. shown' = <<pending.identity>>
    <2>1. shown = <<>>
      BY <1>1 DEF VaultInv, Sealing
    <2> QED
      BY <1>1, <2>1
  <1>4. Types'
    BY <1>1, <1>2 DEF VaultInv, Types
  <1>5. Collection'
    BY <1>1, ApprovedIsStable DEF VaultInv, Collection
  <1>6. Sealing' /\ Restoring'
    BY <1>1, <1>2, <1>3 DEF VaultInv, Sealing, Restoring, Secrets!NoVault
  <1> QED
    BY <1>4, <1>5, <1>6, <1>1, ProvenIsStable DEF VaultInv

LEMMA AcknowledgeKeeps ==
    ASSUME VaultInv, Secrets!Acknowledge
    PROVE  VaultInv'
  <1>1. /\ phase = "pending" /\ pending.revealed
        /\ pending' = [pending EXCEPT !.acknowledged = TRUE]
        /\ UNCHANGED <<sources, approved, phase, todo, records, vault, shown, attempt, written,
                       actions, attempts>>
    BY DEF Secrets!Acknowledge
  <1>2. /\ pending' \in PendingType /\ pending'.revealed
        /\ pending'.vault = pending.vault /\ pending'.identity = pending.identity
        /\ pending'.requested = pending.requested
    BY <1>1 DEF VaultInv, Types, PendingType
  <1>3. Types'
    BY <1>1, <1>2 DEF VaultInv, Types
  <1>4. Collection'
    BY <1>1, ApprovedIsStable DEF VaultInv, Collection
  <1>5. Sealing' /\ Restoring'
    BY <1>1, <1>2 DEF VaultInv, Sealing, Restoring, Secrets!NoVault
  <1> QED
    BY <1>3, <1>4, <1>5, <1>1, ProvenIsStable DEF VaultInv

LEMMA FinishKeeps ==
    ASSUME VaultInv, Secrets!Finish
    PROVE  VaultInv'
  <1>1. /\ phase = "pending" /\ phase' = "packaged" /\ vault' = pending.vault
        /\ pending.requested => pending.acknowledged
        /\ UNCHANGED <<sources, approved, todo, records, pending, shown, attempt,
                       written, actions, attempts>>
    BY DEF Secrets!Finish
  <1>2. pending.vault \in VaultType
    BY DEF VaultInv, Types, PendingType
  <1>3. Types'
    BY <1>1, <1>2 DEF VaultInv, Types, Phases
  <1>4. Collection'
    BY <1>1, ApprovedIsStable DEF VaultInv, Collection
  <1>5. Sealing' /\ Restoring'
    BY <1>1 DEF VaultInv, Sealing, Restoring
  <1> QED
    BY <1>3, <1>4, <1>5, <1>1, ProvenIsStable DEF VaultInv

-----------------------------------------------------------------------------
(* The restore gate.                                                       *)

LEMMA StartRestoreKeeps ==
    ASSUME VaultInv, NEW key \in Secrets!Keys, NEW s \in SUBSET SecretIds, NEW adapter \in Adapters,
           Secrets!StartRestore(key, s, adapter)
    PROVE  VaultInv'
  <1>1. PICK error : error = Secrets!SelectionError(key, s)
    OBVIOUS
  <1>2. /\ error \in Results \ {"ok"}
        /\ error = "none" => s \subseteq Secrets!IdsOf(vault.records)
    BY <1>1 DEF Secrets!SelectionError, Results
  <1>3. /\ phase = "packaged" /\ phase' = IF error = "none" THEN "restore" ELSE "packaged"
        /\ todo' = IF error = "none" THEN Secrets!IdsOf(vault.records) ELSE {}
        /\ attempt' = [Secrets!NoAttempt EXCEPT !.adapter = adapter, !.selection = s,
                                                !.result = error]
        /\ UNCHANGED <<sources, approved, records, pending, vault, shown, written, actions>>
    BY <1>1 DEF Secrets!StartRestore
  <1>4. attempt' = [adapter |-> adapter, selection |-> s, restored |-> {}, manual |-> {},
                    result |-> error]
    BY <1>3 DEF Secrets!NoAttempt
  <1>5. /\ attempt' \in AttemptType /\ attempt'.selection = s /\ attempt'.restored = {}
        /\ attempt'.manual = {} /\ attempt'.result = error
    <2>1. adapter \subseteq Secrets!Targets
      BY SecretsAssumption DEF Secrets!VaultAssumption
    <2> QED
      BY <1>2, <1>4, <2>1 DEF AttemptType
  <1>6. Secrets!IdsOf(vault.records) = approved
    BY <1>3 DEF VaultInv, Collection, Sealing
  <1>7. approved \subseteq SecretIds
    BY SecretsAssumption DEF Secrets!VaultAssumption, VaultInv, Types
  <1>8. Types'
    BY <1>3, <1>5, <1>6, <1>7 DEF VaultInv, Types, Phases
  <1>9. Collection'
    BY <1>3, ApprovedIsStable DEF VaultInv, Collection
  <1>10. Sealing'
    BY <1>3 DEF VaultInv, Sealing
  <1>11. Restoring'
    BY <1>2, <1>3, <1>5 DEF Restoring
  <1> QED
    BY <1>8, <1>9, <1>10, <1>11, <1>3, ProvenIsStable DEF VaultInv

(* A record of the vault is approved, and goes where its source says.      *)
LEMMA VaultRecord ==
    ASSUME VaultInv, phase = "restore", NEW r \in Secrets!Range(vault.records)
    PROVE  r \in RecordType /\ Approved(r)
  <1>1. vault.records = records /\ records \in Seq(RecordType)
    BY DEF VaultInv, Sealing, Types
  <1>2. PICK i \in DOMAIN records : r = records[i]
    BY <1>1 DEF Secrets!Range
  <1> QED
    BY <1>1, <1>2 DEF VaultInv, Collection

(* What is written of a reached record obeys OnlyProvenTargets.            *)
LEMMA WritesAreProven ==
    ASSUME VaultInv, phase = "restore", NEW r \in Secrets!Range(vault.records),
           Secrets!SecureTarget(r.target), UNCHANGED <<sources, approved>>,
           written' = written \cup {Secrets!WrittenWith(r)}
    PROVE  Secrets!OnlyProvenTargets'
  <1>1. PICK w, s : w = Secrets!WrittenWith(r) /\ s = Secrets!Source(r.id)
    OBVIOUS
  <1>2. /\ w.id = r.id /\ w.target = r.target /\ w.adapter = attempt.adapter
        /\ r.target # "Manual" /\ r.target \in attempt.adapter
    BY <1>1 DEF Secrets!WrittenWith, Secrets!SecureTarget
  <1>3. r.id \in approved /\ r.target = Secrets!CollectedTarget(s)
    BY <1>1, VaultRecord DEF Approved
  <1>4. r.target \in {"EnvironmentVariable", "ConfigField"} => s.proven /\ s.target = r.target
    BY <1>2, <1>3 DEF Secrets!CollectedTarget
  <1>5. s = Secrets!Source(w.id)'
    BY <1>1, <1>2 DEF Secrets!Source, Secrets!Range
  <1>6. \A v \in written : Secrets!Source(v.id)' = Secrets!Source(v.id)
    BY DEF Secrets!Source, Secrets!Range
  <1> QED
    BY <1>1, <1>2, <1>3, <1>4, <1>5, <1>6 DEF VaultInv, Secrets!OnlyProvenTargets

LEMMA SkipKeeps ==
    ASSUME VaultInv, NEW r \in Secrets!Range(vault.records), Secrets!SkipRecord(r)
    PROVE  VaultInv'
  <1>1. /\ phase = "restore" /\ r.id \in todo /\ r.id \notin attempt.selection
        /\ todo' = todo \ {r.id}
        /\ UNCHANGED <<sources, approved, phase, records, pending, vault, shown, attempt,
                       written, actions, attempts>>
    BY DEF Secrets!SkipRecord, Secrets!Reached, Secrets!First
  <1>2. Types'
    BY <1>1 DEF VaultInv, Types
  <1>3. Collection'
    BY <1>1, ApprovedIsStable DEF VaultInv, Collection
  <1>4. Sealing' /\ Restoring'
    BY <1>1 DEF VaultInv, Sealing, Restoring
  <1> QED
    BY <1>2, <1>3, <1>4, <1>1, ProvenIsStable DEF VaultInv

LEMMA DeferKeeps ==
    ASSUME VaultInv, NEW r \in Secrets!Range(vault.records), Secrets!DeferRecord(r)
    PROVE  VaultInv'
  <1>1. /\ phase = "restore" /\ r.id \in todo /\ r.id \in attempt.selection
        /\ todo' = todo \ {r.id} /\ actions' = actions \cup {r.id}
        /\ attempt' = [attempt EXCEPT !.manual = @ \cup {r.id}]
        /\ UNCHANGED <<sources, approved, phase, records, pending, vault, shown, written, attempts>>
    BY DEF Secrets!DeferRecord, Secrets!Reached, Secrets!First
  <1>2. /\ attempt' \in AttemptType /\ attempt'.selection = attempt.selection
        /\ attempt'.restored = attempt.restored /\ attempt'.result = attempt.result
        /\ attempt'.manual = attempt.manual \cup {r.id}
    BY <1>1 DEF VaultInv, Types, AttemptType
  <1>3. Types'
    BY <1>1, <1>2 DEF VaultInv, Types
  <1>4. Collection'
    BY <1>1, ApprovedIsStable DEF VaultInv, Collection
  <1>5. Sealing'
    BY <1>1 DEF VaultInv, Sealing
  <1>6. Restoring'
    BY <1>1, <1>2 DEF VaultInv, Restoring
  <1> QED
    BY <1>3, <1>4, <1>5, <1>6, <1>1, ProvenIsStable DEF VaultInv

LEMMA RestoreKeeps ==
    ASSUME VaultInv, NEW r \in Secrets!Range(vault.records), Secrets!RestoreRecord(r)
    PROVE  VaultInv'
  <1>1. /\ phase = "restore" /\ r.id \in todo /\ r.id \in attempt.selection
        /\ Secrets!SecureTarget(r.target)
        /\ todo' = todo \ {r.id} /\ written' = written \cup {Secrets!WrittenWith(r)}
        /\ attempt' = [attempt EXCEPT !.restored = @ \cup {r.id}]
        /\ UNCHANGED <<sources, approved, phase, records, pending, vault, shown, actions, attempts>>
    BY DEF Secrets!RestoreRecord, Secrets!Reached, Secrets!First
  <1>2. /\ attempt' \in AttemptType /\ attempt'.selection = attempt.selection
        /\ attempt'.manual = attempt.manual /\ attempt'.result = attempt.result
        /\ attempt'.restored = attempt.restored \cup {r.id}
    BY <1>1 DEF VaultInv, Types, AttemptType
  <1>3. Types'
    BY <1>1, <1>2 DEF VaultInv, Types
  <1>4. Collection'
    BY <1>1, ApprovedIsStable DEF VaultInv, Collection
  <1>5. Sealing'
    BY <1>1 DEF VaultInv, Sealing
  <1>6. Secrets!WrittenWith(r).id = r.id
    BY DEF Secrets!WrittenWith
  <1>7. \A id \in attempt'.restored : \E w \in written' : w.id = id
    BY <1>1, <1>2, <1>6 DEF VaultInv, Restoring
  <1>8. Restoring'
    BY <1>1, <1>2, <1>7 DEF VaultInv, Restoring
  <1> QED
    BY <1>3, <1>4, <1>5, <1>8, <1>1, WritesAreProven DEF VaultInv

LEMMA FailureKeeps ==
    ASSUME VaultInv, NEW r \in Secrets!Range(vault.records), Secrets!RecordFails(r)
    PROVE  VaultInv'
  <1>1. /\ phase = "restore" /\ phase' = "packaged" /\ todo' = {}
        /\ \/ written' = written
           \/ Secrets!SecureTarget(r.target) /\ written' = written \cup {Secrets!WrittenWith(r)}
        /\ attempt' = [attempt EXCEPT !.result = "OperationFailed"]
        /\ UNCHANGED <<sources, approved, records, pending, vault, shown, actions, attempts>>
    BY DEF Secrets!RecordFails, Secrets!Ended
  <1>2. /\ attempt' \in AttemptType /\ attempt'.selection = attempt.selection
        /\ attempt'.manual = attempt.manual /\ attempt'.restored = attempt.restored
        /\ attempt'.result = "OperationFailed"
    BY <1>1 DEF VaultInv, Types, AttemptType, Results
  <1>3. Types'
    BY <1>1, <1>2 DEF VaultInv, Types, Phases
  <1>4. Collection'
    BY <1>1, ApprovedIsStable DEF VaultInv, Collection
  <1>5. Sealing'
    BY <1>1 DEF VaultInv, Sealing
  <1>6. \A id \in attempt'.restored : \E w \in written' : w.id = id
    BY <1>1, <1>2 DEF VaultInv, Restoring
  <1>7. Restoring'
    BY <1>1, <1>2, <1>6 DEF VaultInv, Restoring
  <1>8. Secrets!OnlyProvenTargets'
    BY <1>1, ProvenIsStable, WritesAreProven DEF VaultInv
  <1> QED
    BY <1>3, <1>4, <1>5, <1>7, <1>8 DEF VaultInv

LEMMA ReportKeeps ==
    ASSUME VaultInv, Secrets!Report
    PROVE  VaultInv'
  <1>1. /\ phase = "restore" /\ phase' = "packaged" /\ todo = {}
        /\ attempt' = [attempt EXCEPT !.result = "ok"]
        /\ UNCHANGED <<sources, approved, todo, records, pending, vault, shown, written,
                       actions, attempts>>
    BY DEF Secrets!Report, Secrets!Ended
  <1>2. /\ attempt' \in AttemptType /\ attempt'.selection = attempt.selection
        /\ attempt'.manual = attempt.manual /\ attempt'.restored = attempt.restored
    BY <1>1 DEF VaultInv, Types, AttemptType, Results
  <1>3. Types'
    BY <1>1, <1>2 DEF VaultInv, Types, Phases
  <1>4. Collection'
    BY <1>1, ApprovedIsStable DEF VaultInv, Collection
  <1>5. Sealing' /\ Restoring'
    BY <1>1, <1>2 DEF VaultInv, Sealing, Restoring
  <1> QED
    BY <1>3, <1>4, <1>5, <1>1, ProvenIsStable DEF VaultInv

LEMMA VaultIdleKeeps ==
    ASSUME VaultInv, UNCHANGED Secrets!vaultVars
    PROVE  VaultInv'
  <1>1. UNCHANGED <<sources, approved, phase, todo, records, pending, vault, shown,
                    attempt, written, actions, attempts>>
    BY DEF Secrets!vaultVars
  <1>2. Types'
    BY <1>1 DEF VaultInv, Types
  <1>3. Collection'
    BY <1>1, ApprovedIsStable DEF VaultInv, Collection
  <1>4. Sealing' /\ Restoring'
    BY <1>1 DEF VaultInv, Sealing, Restoring
  <1> QED
    BY <1>2, <1>3, <1>4, <1>1, ProvenIsStable DEF VaultInv

LEMMA VaultStepInv == VaultInv /\ Secrets!VaultNext => VaultInv'
  <1> SUFFICES ASSUME VaultInv, Secrets!VaultNext
               PROVE  VaultInv'
    OBVIOUS
  <1>1. CASE \E id \in SecretIds : Secrets!ReadFails(id)
    BY <1>1, StopKeeps DEF Secrets!ReadFails, Secrets!Codes
  <1>2. CASE Secrets!VaultStep
    BY <1>1, <1>2, SelectKeeps, CollectKeeps, CollectedKeeps, EncryptKeeps, TakeRecoveryKeeps,
       AcknowledgeKeeps, FinishKeeps, StartRestoreKeeps, SkipKeeps, DeferKeeps, RestoreKeeps,
       FailureKeeps, ReportKeeps DEF Secrets!VaultStep
  <1> QED
    BY <1>2, VaultIdleKeeps DEF Secrets!VaultNext

(* What the invariant says of the properties.                              *)
LEMMA VaultIsSafe ==
    ASSUME VaultInv
    PROVE  /\ Secrets!VaultTypeOK /\ Secrets!OnlyProvenTargets /\ Secrets!ReportIsComplete
           /\ Secrets!RecoveryWasSeen /\ Secrets!VaultIsTheApproval
  <1>1. Len(shown) <= 1
    BY DEF VaultInv, Sealing
  <1>2. Secrets!VaultTypeOK
    BY <1>1 DEF VaultInv, Types, Phases, Restoring, Secrets!VaultTypeOK
  <1>3. Secrets!ReportIsComplete
    BY DEF VaultInv, Restoring, Secrets!ReportIsComplete
  <1>4. Secrets!RecoveryWasSeen
    BY DEF VaultInv, Sealing, Secrets!RecoveryWasSeen
  <1>5. Secrets!VaultIsTheApproval
    <2> SUFFICES ASSUME vault # Secrets!NoVault
                 PROVE  /\ Secrets!IdsOf(vault.records) = approved
                        /\ \A r \in Secrets!Range(vault.records) : r.size = Secrets!Source(r.id).size
      BY DEF Secrets!VaultIsTheApproval
    <2>1. phase \in {"packaged", "restore"} /\ vault.records = records
      BY DEF VaultInv, Sealing
    <2>2. \A r \in Secrets!Range(records) : Approved(r)
      BY DEF VaultInv, Collection, Secrets!Range
    <2> QED
      BY <2>1, <2>2 DEF VaultInv, Collection, Approved
  <1> QED
    BY <1>2, <1>3, <1>4, <1>5 DEF VaultInv

(* A vault holds exactly the approved secrets, its recovery key was shown  *)
(* before it counts, and a secret reaches only a target that was proven,   *)
(* whichever adapters fail and however often the restore is tried.         *)
THEOREM SecretsAreAlwaysSafe == MCSpec => []SecretsAreSafe
  <1> DEFINE PartInv == part = "vault" => VaultInv
  <1>1. MCInit => PartInv
    BY VaultInitInv DEF MCInit
  <1>2. PartInv /\ [MCNext]_mcVars => PartInv'
    <2> SUFFICES ASSUME PartInv, [MCNext]_mcVars, part' = "vault"
                 PROVE  VaultInv'
      OBVIOUS
    <2>1. part = "vault" /\ (Secrets!VaultNext \/ UNCHANGED Secrets!vaultVars)
      BY DEF MCNext, FormatStep, LimitsStep, VaultStep, CreateStep, mcVars, Secrets!vaultVars
    <2> QED
      BY <2>1, VaultStepInv, VaultIdleKeeps
  <1>3. PartInv => SecretsAreSafe
    BY VaultIsSafe DEF SecretsAreSafe
  <1> QED
    BY <1>1, <1>2, <1>3, PTL DEF MCSpec

-----------------------------------------------------------------------------
(* The inductive invariant of the creation.                                *)

Clean(a, c) == Creation!Safe(Artifacts[a].type, c)
IsScreened(a) == Creation!Screened(Artifacts[a].type)
Within(as) == Creation!BytesOf(stored, as) <= sel.maxBytes

CreationInv ==
    /\ at \in {"idle", "review", "ingest", "write", "publish", "done"}
    /\ stored = [a \in DOMAIN Artifacts |-> stored[a]]
    /\ at \in {"ingest", "write", "publish"} =>
          /\ chosen \ todo \subseteq DOMAIN Artifacts
          /\ \A a \in chosen \ todo : IsScreened(a) => Clean(a, stored[a])
    /\ at \in {"write", "publish"} => todo = {} /\ Within(chosen)
    /\ temp => at = "ingest" /\ \E a \in todo : ~IsScreened(a)
    /\ stage => at = "publish"
    /\ output = "package" => at = "done" /\ {x[1] : x \in published} = chosen /\ Within(chosen)
    /\ output # "package" => published = {}
    /\ Creation!NothingUnsafePackaged

-----------------------------------------------------------------------------
(* Screening.                                                              *)

(* What is left of a document without its blocked nodes has no unsafe path.*)
LEMMA FilteredIsSafe ==
    ASSUME NEW leaves
    PROVE  Creation!UnsafeValuePaths(Creation!FilteredValue(leaves, Creation!UnsafeValuePaths(leaves))) = {}
  <1> DEFINE blocked == Creation!UnsafeValuePaths(leaves)
  <1>1. \A l \in leaves : Creation!FirstUnsafe(l) \subseteq Creation!Prefixes(l.path) \cap blocked
    BY DEF Creation!FirstUnsafe, Creation!UnsafeValuePaths
  <1>2. \A l \in Creation!FilteredValue(leaves, blocked) :
          l \in leaves /\ Creation!Prefixes(l.path) \cap blocked = {}
    BY DEF Creation!FilteredValue
  <1>3. \A l \in Creation!FilteredValue(leaves, blocked) : Creation!FirstUnsafe(l) = {}
    BY <1>1, <1>2
  <1> QED
    BY <1>3 DEF Creation!UnsafeValuePaths

(* Whatever the screening lets through may be in a package.                *)
LEMMA ScreenedIsClean ==
    ASSUME NEW a, NEW ext, NEW c,
           Creation!ScanArtifact(a, ext, c).bytes # Creation!Nothing
    PROVE  Clean(a, Creation!ScanArtifact(a, ext, c).bytes)
  <1> DEFINE leaves == Creation!FilteredValue(c.leaves, Creation!UnsafeValuePaths(c.leaves))
  <1>1. PICK s : s = Creation!ScanArtifact(a, ext, c).bytes
    OBVIOUS
  <1>2. Creation!Unusable.bytes = Creation!Nothing
    BY DEF Creation!Unusable
  <1>3. /\ c.kind # "bytes"
        /\ \/ /\ Creation!TextStable(c) /\ s = c
              /\ Artifacts[a].type # "text" => Creation!UnsafeValuePaths(c.leaves) = {}
           \/ Artifacts[a].type # "text" /\ s = Creation!Rewritten(leaves)
    BY <1>1, <1>2 DEF Creation!ScanArtifact
  <1>4. CASE /\ s = c /\ Creation!TextStable(c)
             /\ Artifacts[a].type # "text" => Creation!UnsafeValuePaths(c.leaves) = {}
    BY <1>1, <1>3, <1>4 DEF Clean, Creation!Safe, Creation!TextStable
  <1>5. CASE Artifacts[a].type # "text" /\ s = Creation!Rewritten(leaves)
    <2>1. PICK ls : ls = leaves
      OBVIOUS
    <2>2. Creation!UnsafeValuePaths(ls) = {}
      BY <2>1, FilteredIsSafe
    <2>3. s.leaves = ls /\ s.comment = FALSE /\ s.kind = "document"
      BY <1>5, <2>1 DEF Creation!Rewritten
    <2> QED
      BY <1>1, <1>5, <2>2, <2>3 DEF Clean, Creation!Safe
  <1> QED
    BY <1>3, <1>4, <1>5

-----------------------------------------------------------------------------
(* The creation, action by action.                                         *)

LEMMA CreationInitInv == Creation!CreateInit => CreationInv
  BY DEF Creation!CreateInit, CreationInv, Creation!NothingUnsafePackaged

(* Whatever stops the creation removes what it left.                       *)
LEMMA CreationStops ==
    ASSUME CreationInv, at # "done", NEW code, Creation!Stop(code)
    PROVE  CreationInv'
  BY DEF CreationInv, Creation!Stop, Within, Creation!NothingUnsafePackaged

(* One more artifact is in the store.                                      *)
LEMMA IngestKeeps ==
    ASSUME CreationInv, NEW a \in DOMAIN Artifacts, Creation!IngestScreened(a)
    PROVE  CreationInv'
  <1>1. CASE \E code : Creation!Stop(code)
    BY <1>1, CreationStops DEF Creation!IngestScreened
  <1>2. PICK bytes : bytes = Creation!ScanArtifact(a, inv[Creation!Owner(a)].ext, file[a]).bytes
    OBVIOUS
  <1>3. CASE /\ bytes # Creation!Nothing
             /\ stored' = [stored EXCEPT ![a] = bytes] /\ todo' = todo \ {a}
             /\ UNCHANGED <<inv, sel, space, file, at, shown, chosen, comps, output,
                            published, temp, stage, cancel, result, changes>>
    <2>1. Clean(a, bytes)
      <3>1. PICK ext, c : ext = inv[Creation!Owner(a)].ext /\ c = file[a]
        OBVIOUS
      <3> QED
        BY <1>2, <1>3, <3>1, ScreenedIsClean
    <2>2. at = "ingest" /\ IsScreened(a) /\ ~temp
      BY DEF Creation!IngestScreened, IsScreened
    <2>3. stored' = [b \in DOMAIN Artifacts |-> IF b = a THEN bytes ELSE stored[b]]
      BY <1>3 DEF CreationInv
    <2> QED
      BY <1>3, <2>1, <2>2, <2>3 DEF CreationInv, Creation!NothingUnsafePackaged
  <1> QED
    BY <1>1, <1>2, <1>3 DEF Creation!IngestScreened

LEMMA OpenBoundedKeeps ==
    ASSUME CreationInv, NEW a \in DOMAIN Artifacts, Creation!OpenBounded(a)
    PROVE  CreationInv'
  <1>1. CASE \E code : Creation!Stop(code)
    BY <1>1, CreationStops DEF Creation!OpenBounded
  <1>2. CASE /\ temp' = TRUE /\ stored' = [stored EXCEPT ![a] = file[a]]
             /\ UNCHANGED <<inv, sel, space, file, at, shown, chosen, comps, todo, output,
                            published, stage, cancel, result, changes>>
    <2>1. at = "ingest" /\ ~IsScreened(a) /\ a \in todo
      BY DEF Creation!OpenBounded, IsScreened
    <2>2. stored' = [b \in DOMAIN Artifacts |-> IF b = a THEN file[a] ELSE stored[b]]
      BY <1>2 DEF CreationInv
    <2> QED
      BY <1>2, <2>1, <2>2 DEF CreationInv, Creation!NothingUnsafePackaged
  <1> QED
    BY <1>1, <1>2 DEF Creation!OpenBounded

LEMMA StoreBoundedKeeps ==
    ASSUME CreationInv, NEW a \in DOMAIN Artifacts, Creation!StoreBounded(a)
    PROVE  CreationInv'
  <1>1. CASE \E code : Creation!Stop(code)
    BY <1>1, CreationStops DEF Creation!StoreBounded
  <1>2. CASE /\ temp' = FALSE /\ todo' = todo \ {a}
             /\ UNCHANGED <<inv, sel, space, file, at, shown, chosen, comps, stored, output,
                            published, stage, cancel, result, changes>>
    <2>1. at = "ingest" /\ ~IsScreened(a)
      BY DEF Creation!StoreBounded, IsScreened
    <2> QED
      BY <1>2, <2>1 DEF CreationInv, Creation!NothingUnsafePackaged
  <1> QED
    BY <1>1, <1>2 DEF Creation!StoreBounded

LEMMA SealKeeps ==
    ASSUME CreationInv, Creation!Seal
    PROVE  CreationInv'
  <1>1. CASE \E code : Creation!Stop(code)
    BY <1>1, CreationStops DEF Creation!Seal
  <1>2. CASE /\ at = "ingest" /\ todo = {} /\ at' = "write"
             /\ Creation!ActualBytes <= sel.maxBytes
             /\ UNCHANGED <<inv, sel, space, file, shown, chosen, comps, todo, stored, output,
                            published, temp, stage, cancel, result, changes>>
    <2>1. Within(chosen) /\ Within(chosen)'
      BY <1>2 DEF Within, Creation!ActualBytes
    <2> QED
      BY <1>2, <2>1 DEF CreationInv, Creation!NothingUnsafePackaged
  <1> QED
    BY <1>1, <1>2 DEF Creation!Seal

(* The artifacts of a package, paired with what is stored of them.         *)
Pairs(f, as) == {<<a, f[a]>> : a \in as}

LEMMA PairFacts ==
    ASSUME NEW f, NEW as
    PROVE  /\ {x[1] : x \in Pairs(f, as)} = as
           /\ \A x \in Pairs(f, as) : x[1] \in as /\ x[2] = f[x[1]]
  <1>0. PICK pairs : pairs = Pairs(f, as)
    OBVIOUS
  <1>1. \A a : <<a, f[a]>>[1] = a /\ <<a, f[a]>>[2] = f[a]
    OBVIOUS
  <1>2. \A x \in pairs : \E a \in as : x = <<a, f[a]>>
    BY <1>0 DEF Pairs
  <1>3. \A x \in pairs : x[1] \in as /\ x[2] = f[x[1]]
    <2> SUFFICES ASSUME NEW x \in pairs
                 PROVE  x[1] \in as /\ x[2] = f[x[1]]
      OBVIOUS
    <2>1. PICK a \in as : x = <<a, f[a]>>
      BY <1>2
    <2>2. x[1] = a /\ x[2] = f[a]
      BY <1>1, <2>1
    <2> QED
      BY <2>2
  <1>4. \A a \in as : <<a, f[a]>> \in pairs
    BY <1>0 DEF Pairs
  <1>5. \A a \in as : \E x \in pairs : x[1] = a
    BY <1>1, <1>4, Zenon
  <1> QED
    BY <1>0, <1>3, <1>5

LEMMA PublishesClean ==
    ASSUME CreationInv, Creation!Publish
    PROVE  CreationInv'
  <1>1. CASE \E code : Creation!Stop(code)
    BY <1>1, CreationStops DEF Creation!Publish
  <1>2. CASE /\ output' = "package" /\ published' = {<<a, stored[a]>> : a \in chosen}
             /\ at' = "done" /\ result' = "ok" /\ stage' = FALSE
             /\ UNCHANGED <<inv, sel, space, file, shown, chosen, comps, todo, stored, temp,
                            cancel, changes>>
    <2>1. at = "publish" /\ todo = {} /\ ~temp
      BY DEF Creation!Publish, CreationInv
    <2>2. Within(chosen) /\ Within(chosen)'
      BY <1>2, <2>1 DEF Within, CreationInv
    <2>3. published' = Pairs(stored, chosen)
      BY <1>2 DEF Pairs
    <2>4. /\ {x[1] : x \in published'} = chosen
          /\ \A x \in published' : x[1] \in chosen /\ x[2] = stored[x[1]]
      BY <2>3, PairFacts
    <2>5. \A x \in published' : IsScreened(x[1]) => Clean(x[1], x[2])
      <3>1. \A a \in chosen : IsScreened(a) => Clean(a, stored[a])
        BY <2>1 DEF CreationInv
      <3> QED
        BY <2>4, <3>1, Zenon
    <2>6. Creation!NothingUnsafePackaged'
      BY <2>5 DEF Creation!NothingUnsafePackaged, IsScreened, Clean
    <2> QED
      BY <1>2, <2>1, <2>2, <2>4, <2>6 DEF CreationInv
  <1> QED
    BY <1>1, <1>2 DEF Creation!Publish

LEMMA OtherStepsKeep ==
    ASSUME CreationInv,
           \/ Creation!ReviewSelection \/ Creation!Begin \/ Creation!ReviewAgain
           \/ Creation!WriteStaged \/ Creation!WriteFails
    PROVE  CreationInv'
  <1>1. CASE \E code : Creation!Stop(code)
    BY <1>1, CreationStops DEF Creation!ReviewSelection, Creation!Begin, Creation!ReviewAgain,
       Creation!WriteStaged, Creation!WriteFails, CreationInv
  <1>2. CASE Creation!ReviewSelection \/ Creation!WriteFails
    BY <1>1, <1>2 DEF Creation!ReviewSelection, Creation!WriteFails, CreationInv, Within,
       Creation!NothingUnsafePackaged
  <1>3. CASE Creation!Begin
    BY <1>1, <1>3 DEF Creation!Begin, CreationInv, Within, Creation!NothingUnsafePackaged
  <1>4. CASE Creation!ReviewAgain
    BY <1>1, <1>4 DEF Creation!ReviewAgain, CreationInv, Within, Creation!NothingUnsafePackaged
  <1>5. CASE Creation!WriteStaged
    BY <1>1, <1>5 DEF Creation!WriteStaged, CreationInv, Within, Creation!NothingUnsafePackaged
  <1> QED
    BY <1>2, <1>3, <1>4, <1>5

LEMMA OutsideKeeps ==
    ASSUME CreationInv,
           \/ \E a \in DOMAIN Artifacts, c \in Contents : Creation!Edit(a, c)
           \/ Creation!Foreign \/ Creation!Cancel \/ UNCHANGED Creation!createVars
    PROVE  CreationInv'
  <1>1. CASE \E a \in DOMAIN Artifacts, c \in Contents : Creation!Edit(a, c)
    BY <1>1 DEF Creation!Edit, CreationInv, Within, Creation!NothingUnsafePackaged
  <1>2. CASE Creation!Foreign
    BY <1>2 DEF Creation!Foreign, CreationInv, Within, Creation!NothingUnsafePackaged
  <1>3. CASE Creation!Cancel \/ UNCHANGED Creation!createVars
    BY <1>3 DEF Creation!Cancel, Creation!createVars, CreationInv, Within,
                Creation!NothingUnsafePackaged
  <1> QED
    BY <1>1, <1>2, <1>3

LEMMA CreationStepInv ==
    ASSUME CreationInv, Creation!CreateNext
    PROVE  CreationInv'
  BY IngestKeeps, OpenBoundedKeeps, StoreBoundedKeeps, SealKeeps, PublishesClean,
     OtherStepsKeep, OutsideKeeps DEF Creation!CreateNext, Creation!Done

(* Only a creation that was not cancelled puts a package in place, and     *)
(* only where there is nothing.                                            *)
LEMMA OutputOnlyByPublish ==
    ASSUME CreationInv, Creation!CreateNext \/ UNCHANGED Creation!createVars
    PROVE  Creation!OutputIsOurs
  <1>1. CASE Creation!Publish
    BY <1>1 DEF Creation!Publish, Creation!Stop, Creation!OutputIsOurs
  <1>2. CASE Creation!Foreign
    BY <1>2 DEF Creation!Foreign, Creation!OutputIsOurs
  <1>3. CASE output' = output
    BY <1>3 DEF Creation!OutputIsOurs
  <1>4. ASSUME NEW a, NEW c,
               Creation!IngestScreened(a) \/ Creation!OpenBounded(a) \/ Creation!StoreBounded(a)
               \/ Creation!Edit(a, c)
        PROVE  output' = output
    BY <1>4 DEF Creation!IngestScreened, Creation!OpenBounded, Creation!StoreBounded,
                Creation!Edit, Creation!Stop
  <1>5. ASSUME Creation!ReviewSelection \/ Creation!Begin \/ Creation!ReviewAgain \/ Creation!Seal
               \/ Creation!WriteStaged \/ Creation!WriteFails
        PROVE  output' = output
    BY <1>5 DEF Creation!ReviewSelection, Creation!Begin, Creation!ReviewAgain, Creation!Seal,
                Creation!WriteStaged, Creation!WriteFails, Creation!Stop
  <1>6. ASSUME Creation!Cancel \/ UNCHANGED Creation!createVars
        PROVE  output' = output
    BY <1>6 DEF Creation!Cancel, Creation!createVars
  <1> QED
    BY <1>1, <1>2, <1>3, <1>4, <1>5, <1>6 DEF Creation!CreateNext, Creation!Done

LEMMA CreationFacts ==
    CreationInv => /\ Creation!NothingUnsafePackaged /\ Creation!WithinTheLimit
                   /\ Creation!NoTemporaryFiles
  BY DEF CreationInv, Within, Creation!WithinTheLimit, Creation!NoTemporaryFiles

(* Whatever changes during the creation of a package, it holds no value,   *)
(* field or comment that the screening finds (its object keys are not      *)
(* screened) and no more than the limit, no temporary file stays, and the  *)
(* file of another program at the destination is left alone.               *)
THEOREM CreationIsAlwaysSafe == MCSpec => CreationIsSafe
  <1> DEFINE PartInv == part = "create" => CreationInv
  <1>1. MCInit => PartInv
    BY CreationInitInv DEF MCInit
  <1>2. ASSUME [MCNext]_mcVars, part = "create" \/ part' = "create"
        PROVE  part = "create" /\ part' = "create"
               /\ (Creation!CreateNext \/ UNCHANGED Creation!createVars)
    BY <1>2 DEF MCNext, FormatStep, LimitsStep, VaultStep, CreateStep, mcVars, Creation!createVars
  <1>3. PartInv /\ [MCNext]_mcVars => PartInv'
    BY <1>2, CreationStepInv, OutsideKeeps
  <1>4. PartInv /\ PartInv' /\ [MCNext]_mcVars
          => [part = "create" => /\ Creation!NothingUnsafePackaged' /\ Creation!WithinTheLimit'
                                 /\ Creation!NoTemporaryFiles' /\ Creation!OutputIsOurs]_mcVars
    <2> SUFFICES ASSUME PartInv, PartInv', [MCNext]_mcVars, part = "create"
                 PROVE  /\ Creation!NothingUnsafePackaged' /\ Creation!WithinTheLimit'
                        /\ Creation!NoTemporaryFiles' /\ Creation!OutputIsOurs
      OBVIOUS
    <2>1. (CreationInv => /\ Creation!NothingUnsafePackaged /\ Creation!WithinTheLimit
                          /\ Creation!NoTemporaryFiles)'
      BY CreationFacts, PTL
    <2> QED
      BY <2>1, <1>2, OutputOnlyByPublish
  <1> QED
    BY <1>1, <1>3, <1>4, PTL DEF MCSpec, CreationIsSafe
=============================================================================
