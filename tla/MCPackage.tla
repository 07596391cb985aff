----------------------------- MODULE MCPackage -----------------------------
(***************************************************************************)
(* Packages: their format from the writer to the reader's approval, the    *)
(* limits of the store below them, the vault of secrets, and the command   *)
(* that creates them while files change. A behaviour is one of them at     *)
(* work.                                                                   *)
(***************************************************************************)
EXTENDS Naturals, FiniteSets, Sequences, Functions, TLC

CONSTANTS
    SecretIds, Sources, Approvals, Passphrases, Adapters,
    MaxRecords, MaxValue, MaxPlain, MaxPass, MaxAttempts,
    Inventories, Artifacts, Contents, StartContents, Selections, Sensitive,
    Markers, Unstable, MaxDepth, MaxScan, Margin, Spaces, MaxChanges

VARIABLES part,
    req, store, disk, pc, cur, read, out, faults, object, temp, inode, proc,
    receipts, crashes, sources, approved, phase, todo, records, pending,
    vault, shown, attempt, written, actions, attempts, inv, sel, space, file,
    at, chosen, comps, stored, output, published, stage, cancel, result,
    changes, left

(* Instances of PackageFormat for TLC: seven objects, chunks of two bytes. *)

PfData(n, p) == [kind |-> "data", size |-> n, packed |-> p, ctype |-> "Text",
               chunks |-> <<>>, canonical |-> TRUE]
PfPiece(i, n) == [id |-> i, bytes |-> n]
PfManifest(n, cs) == [kind |-> "manifest", size |-> n, packed |-> 1, ctype |-> "Text",
                    chunks |-> cs, canonical |-> TRUE]

(* 3 and 4 share chunk 1; 5 does not add up; 6 lists a manifest; 7 is of   *)
(* another type than 4 and has the same chunk.                             *)
PfContent ==
    <<PfData(2, 1), PfData(1, 2), PfManifest(3, <<PfPiece(1, 2), PfPiece(2, 1)>>),
      PfManifest(4, <<PfPiece(1, 2), PfPiece(1, 2)>>), PfManifest(3, <<PfPiece(1, 2)>>),
      PfManifest(3, <<PfPiece(1, 2), PfPiece(4, 1)>>),
      [PfManifest(2, <<PfPiece(1, 2)>>) EXCEPT !.ctype = "Toml"]>>

PfE(i) == [id |-> i, bytes |-> PfContent[i].size, packed |-> PfContent[i].packed,
         ctype |-> IF PfContent[i].kind = "manifest" THEN "Json" ELSE "Text"]
PfArt(n, o) == [id |-> n, object |-> o, policy |-> "Config",
              size |-> IF o = 0 THEN 0 ELSE PfContent[o].size,
              ctype |-> IF o = 0 THEN "Text" ELSE PfContent[o].ctype]
PfComp(n, arts) == [id |-> n, arts |-> arts, restore |-> "Copy", prov |-> FALSE, claims |-> <<1>>]

PfUnsigned == [by |-> "nobody", covers |-> [ids |-> <<>>, digest |-> {}, index |-> {}]]
PfDoc(cs, index, decisions) ==
    [version |-> 1, comps |-> cs, edges |-> {}, ids |-> [i \in DOMAIN cs |-> cs[i].id],
     sel |-> [comps |-> <<1>>, arts |-> decisions, secrets |-> "Exclude"], index |-> index,
     digest |-> Range(index), vault |-> FALSE, sig |-> PfUnsigned]
PfSigned(d, key) ==
    [d EXCEPT !.sig = [by |-> key,
        covers |-> [ids |-> d.ids, digest |-> d.digest, index |-> Range(d.index)]]]
PfKeep(n) == [artifact |-> n, include |-> TRUE]
PfDrop(n) == [artifact |-> n, include |-> FALSE]

PfPlain == PfDoc(<<PfComp(1, <<PfArt(1, 3)>>)>>, <<PfE(3), PfE(2), PfE(1)>>, <<PfKeep(1)>>)
PfShared == PfDoc(<<PfComp(1, <<PfArt(1, 4), PfArt(2, 4)>>), PfComp(2, <<PfArt(3, 0)>>)>>,
              <<PfE(1), PfE(4)>>, <<PfKeep(1), PfDrop(3)>>)
PfEmpty == PfDoc(<<PfComp(1, <<>>)>>, <<>>, <<>>)

(* One defect each.                                                        *)
PfFlawed ==
    {[PfPlain EXCEPT !.version = 2], [PfPlain EXCEPT !.ids = <<2>>],
     [PfPlain EXCEPT !.vault = TRUE], [PfPlain EXCEPT !.sel.secrets = "VaultExplicit"],
     [PfPlain EXCEPT !.digest = {}], [PfPlain EXCEPT !.index = Append(@, PfE(1))],
     [PfPlain EXCEPT !.sel.arts = <<PfDrop(1)>>], [PfPlain EXCEPT !.edges = {<<1, 2>>}],
     [PfPlain EXCEPT !.comps[1].claims = <<1, 1>>],
     [PfSigned(PfPlain, "me") EXCEPT !.sig.covers.ids = <<>>],
     PfDoc(<<PfComp(1, <<PfArt(1, 3)>>)>>, <<PfE(1), PfE(2), PfE(3), PfE(4)>>, <<>>),
     PfDoc(<<PfComp(1, <<PfArt(1, 3)>>)>>, <<PfE(1), PfE(3)>>, <<>>),
     PfDoc(<<PfComp(1, <<PfArt(1, 5)>>)>>, <<PfE(1), PfE(5)>>, <<>>),
     PfDoc(<<PfComp(1, <<PfArt(1, 6), PfArt(2, 4)>>)>>, <<PfE(1), PfE(4), PfE(6)>>, <<>>),
     PfDoc(<<PfComp(1, <<PfArt(1, 0)>>)>>, <<>>, <<PfKeep(1)>>),
     PfDoc(<<PfComp(1, <<PfArt(1, 1)>>)>>, <<PfE(1)>>, <<>>),
     PfDoc(<<PfComp(1, <<PfArt(1, 3)>>), PfComp(2, <<PfArt(2, 4)>>)>>, <<PfE(1), PfE(2), PfE(3), PfE(4)>>, <<>>)}

(* What create_package writes for one captured file.                       *)
Build == INSTANCE PackageFormat
    WITH Content <- PfContent, Requests <- {}, Others <- {}, Chunk <- 2,
         MaxObjects <- 9, MaxMetadata <- 4, MaxEntries <- 11, MaxArchive <- 6,
         Trusted <- "me", MaxFaults <- 1

PfRequests == {Build!BuildPackageInputs(<<3>>), PfPlain, PfShared, PfEmpty, PfSigned(PfPlain, "me"), PfSigned(PfShared, "other")} \cup PfFlawed
PfOthers == {PfPlain, PfSigned(PfShared, "me")}

(* Instances of Vault for TLC: three secrets with targets of each kind.    *)

VaS(i, n, t, p) == [id |-> i, size |-> n, target |-> t, proven |-> p]
VaSources ==
    {<<VaS(2, 1, "EnvironmentVariable", p), VaS(1, n, "WindowsCredentialManager", FALSE),
       VaS(3, 2, t, TRUE)>> : p \in BOOLEAN, n \in {0, 1, 2, 4}, t \in {"ConfigField", "Manual"}}
    \cup {<<VaS(1, 1, "ApplicationKeyring", FALSE), VaS(1, 1, "Manual", FALSE)>>}
VaApprovals == {{}, {1, 2}, {1, 3}, {3}, {1, 2, 3}}
VaPassphrases == {[name |-> "p", size |-> 1], [name |-> "q", size |-> 1],
                  [name |-> "none", size |-> 0], [name |-> "long", size |-> 2]}
VaAdapters == {{"WindowsCredentialManager", "ConfigField"},
               {"EnvironmentVariable", "Manual"}}

(* Instances of PackageCreate for TLC.                                     *)

CrL(p, s) == [path |-> p, stable |-> s]
CrDoc(ls, com, n) == [kind |-> "document", leaves |-> ls, comment |-> com, size |-> n]
CrClean == CrDoc({CrL(<<"a">>, TRUE)}, FALSE, 1)
CrToken == CrDoc({CrL(<<"a">>, TRUE), CrL(<<"token", "x">>, TRUE)}, FALSE, 1)
CrDeep == CrDoc({CrL(<<"a", "b">>, FALSE), CrL(<<"a", "a">>, TRUE), CrL(<<"ref", "b">>, TRUE)}, FALSE, 2)
CrCommented == CrDoc({CrL(<<"a">>, TRUE), CrL(<<"b">>, TRUE)}, TRUE, 1)
CrBytes == [kind |-> "bytes", leaves |-> {}, comment |-> FALSE, size |-> 1]
CrKeyed == CrDoc({CrL(<<"sk", "a">>, FALSE), CrL(<<"sk", "b">>, TRUE)}, FALSE, 1)
CrLarge == CrDoc({CrL(<<"a">>, TRUE)}, FALSE, 3)
CrStart == {CrClean, CrToken, CrKeyed}
CrContents == {CrClean, CrToken, CrDeep, CrCommented, CrKeyed, CrBytes, CrLarge}

CrArtifacts == "conf" :> [policy |-> "config", type |-> "json", size |-> 1]
            @@ "note" :> [policy |-> "file", type |-> "text", size |-> 1]
            @@ "exe" :> [policy |-> "file", type |-> "binary", size |-> 1]
CrK(sens, shape, needs, ext, arts) ==
    [sensitive |-> sens, secret |-> FALSE, unsafeShape |-> shape, needs |-> needs,
     ext |-> ext, arts |-> arts]
CrPlain == {CrL(<<"v">>, TRUE)}
CrBad == {CrL(<<"token">>, TRUE)}
CrInventories ==
    {"c1" :> CrK(FALSE, FALSE, {"c2"}, e1, {"conf", "exe"}) @@ "c2" :> CrK(s, u, {}, e2, {"note"})
        : e1 \in {CrPlain, CrBad}, s \in {FALSE}, u \in BOOLEAN, e2 \in {CrPlain, CrBad}}
    \cup {"c1" :> CrK(FALSE, FALSE, {}, CrPlain, {"conf", "note"}) @@ "c2" :> CrK(TRUE, FALSE, {}, CrPlain, {"exe"})}
CrSelections ==
    {[components |-> cs, excluded |-> x, vault |-> FALSE, maxBytes |-> m]
        : cs \in {{"c1"}, {"c1", "c2"}}, x \in {{}, {"exe"}}, m \in {3, 9}}
    \cup {[components |-> {"c1"}, excluded |-> {}, vault |-> TRUE, maxBytes |-> 9]}
CrSpaces == {[state |-> 9, output |-> 9, same |-> TRUE], [state |-> 3, output |-> 5, same |-> FALSE],
             [state |-> 6, output |-> 6, same |-> FALSE]}

-----------------------------------------------------------------------------
Format == INSTANCE PackageFormat
    WITH Content <- PfContent, Requests <- PfRequests, Others <- PfOthers,
         Chunk <- 2, MaxObjects <- 9, MaxMetadata <- 4, MaxEntries <- 11,
         MaxArchive <- 6, Trusted <- "me", MaxFaults <- 1
Limits == INSTANCE PackageStore
    WITH Procs <- {"p1"}, Pids <- {1, 2}, Files <- {<<>>, <<1, 1, 1, 1>>, <<1,
         1, 1, 1, 2>>, <<1, 1, 1, 1, 2, 2>>}, Chunk <- 2, MaxFile <- 5,
         MaxObject <- 2, Attempts <- 2, MaxCrashes <- 3, MaxFaults <- 2
Secrets == INSTANCE Vault
Creation == INSTANCE PackageCreate

ASSUME SecretsAssumption == Secrets!VaultAssumption

(* The variables that one part alone has, and those that a part leaves     *)
(* alone.                                                                  *)
ofFormat == <<req, store, disk, pc, cur, read, out>>
ofLimits == <<object, inode, proc, receipts, crashes, left>>
ofVault ==
    <<sources, approved, phase, records, pending, vault, attempt, written,
      actions, attempts>>
ofCreate ==
    <<inv, sel, space, file, at, chosen, comps, stored, output, published,
      stage, cancel, result, changes>>

besidesFormat == <<ofLimits, ofVault, ofCreate, temp, todo, shown>>
besidesLimits == <<ofFormat, ofVault, ofCreate, todo, shown>>
besidesVault == <<ofFormat, ofLimits, ofCreate, faults, temp>>
besidesCreate == <<ofFormat, ofLimits, ofVault, faults>>

(* One part is chosen and runs; the variables of the others are "off".     *)
FormatIsOff ==
    /\ req = "off" /\ store = "off" /\ disk = "off" /\ pc = "off"
    /\ cur = "off" /\ read = "off" /\ out = "off"
LimitsIsOff ==
    /\ object = "off" /\ inode = "off" /\ proc = "off" /\ receipts = "off"
    /\ crashes = "off" /\ left = "off"
VaultIsOff ==
    /\ sources = "off" /\ approved = "off" /\ phase = "off" /\ records = "off"
    /\ pending = "off" /\ vault = "off" /\ attempt = "off" /\ written = "off"
    /\ actions = "off" /\ attempts = "off"
CreateIsOff ==
    /\ inv = "off" /\ sel = "off" /\ space = "off" /\ file = "off"
    /\ at = "off" /\ chosen = "off" /\ comps = "off" /\ stored = "off"
    /\ output = "off" /\ published = "off" /\ stage = "off" /\ cancel = "off"
    /\ result = "off" /\ changes = "off"

OffFormat ==
    /\ LimitsIsOff /\ VaultIsOff /\ CreateIsOff /\ temp = "off"
    /\ todo = "off" /\ shown = "off"
OffLimits ==
    /\ FormatIsOff /\ VaultIsOff /\ CreateIsOff /\ todo = "off"
    /\ shown = "off"
OffVault ==
    /\ FormatIsOff /\ LimitsIsOff /\ CreateIsOff /\ faults = "off"
    /\ temp = "off"
OffCreate ==
    /\ FormatIsOff /\ LimitsIsOff /\ VaultIsOff /\ faults = "off"

MCInit ==
    \/ part = "format" /\ Format!PackageInit /\ OffFormat
    \/ part = "limits" /\ Limits!StoreInit /\ OffLimits
    \/ part = "vault" /\ Secrets!VaultInit /\ OffVault
    \/ part = "create" /\ Creation!CreateInit /\ OffCreate

FormatStep == part = "format" /\ Format!PackageNext /\ UNCHANGED <<part, besidesFormat>>
LimitsStep == part = "limits" /\ Limits!StoreNext /\ UNCHANGED <<part, besidesLimits>>
VaultStep == part = "vault" /\ Secrets!VaultNext /\ UNCHANGED <<part, besidesVault>>
CreateStep == part = "create" /\ Creation!CreateNext /\ UNCHANGED <<part, besidesCreate>>

MCNext ==
    \/ FormatStep
    \/ LimitsStep
    \/ VaultStep
    \/ CreateStep

mcVars ==
    <<part, req, store, disk, pc, cur, read, out, faults, object, temp, inode,
      proc, receipts, crashes, sources, approved, phase, todo, records,
      pending, vault, shown, attempt, written, actions, attempts, inv, sel,
      space, file, at, chosen, comps, stored, output, published, stage,
      cancel, result, changes, left>>

MCSpec == MCInit /\ [][MCNext]_mcVars

(***************************************************************************)
(* Properties                                                              *)
(***************************************************************************)
(* What the writer publishes the reader accepts; what the reader accepts   *)
(* is whole, and what it hands out was verified, although files change     *)
(* between the two readings; nothing over a limit gets in (writer.rs,      *)
(* reader.rs, content_store.rs).                                           *)
PackageIsWhole ==
    /\ part = "format" => /\ Format!PackageTypeOK /\ Format!WrittenIsReadable /\ Format!AcceptedIsWhole
                          /\ Format!DeliveredIsVerified /\ Format!InvalidNeverApproved
    /\ part = "limits" => Limits!LimitHolds

(* A vault holds exactly the approved secrets, its recovery key was shown  *)
(* before it counts, and a secret reaches only a target that was proven,   *)
(* with a report of all of them (vault.rs, manual_actions.rs).             *)
SecretsAreSafe ==
    part = "vault" => /\ Secrets!VaultTypeOK /\ Secrets!OnlyProvenTargets /\ Secrets!ReportIsComplete
                      /\ Secrets!RecoveryWasSeen /\ Secrets!VaultIsTheApproval

(* A package holds no value, field or comment that the screening finds     *)
(* (object keys are not screened) and no more than the limit, also when    *)
(* files change after the review; a foreign file at the destination is     *)
(* left alone and no temporary file stays (create_package).                *)
CreationIsSafe ==
    [][part = "create" => /\ Creation!NothingUnsafePackaged' /\ Creation!WithinTheLimit'
                          /\ Creation!NoTemporaryFiles' /\ Creation!OutputIsOurs]_mcVars
=============================================================================
