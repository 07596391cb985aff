--------------------------- MODULE PackageInstall ---------------------------
(***************************************************************************)
(* ProviderInstallHandler and VsCodeRestoreHandler (reforge-restore,       *)
(* handlers/providers.rs and vscode.rs): one package or editor extension   *)
(* is installed with its package manager and looked up afterwards, over    *)
(* the cancelled, timed out, killed and resumed attempts of a run.         *)
(*                                                                         *)
(* What the provider lists are the [id, version, source] of `machine`.     *)
(* Listings are compared as text: Contains is the substring relation       *)
(* between the words that occur.                                           *)
(***************************************************************************)
EXTENDS Naturals, FiniteSets

CONSTANTS
    Requests,      \* [provider, id, shape, version, source, flags, hash, arch, url]
    Machines,      \* what may be installed at first
    Contains,      \* pairs <<text, word>>: the word occurs in the text
    Refuses,       \* providers that fail when the version is there already
    MaxFaults      \* cancelled, failed, timed out or killed processes

VARIABLES
    req, machine,
    pending,       \* what waits for a reboot
    facts,         \* `machine` as the scan before this execution saw it
    available,     \* the provider's executable resolves
    pc, reboot, outcome, faults

piVars == <<req, machine, pending, facts, available, pc, reboot, outcome, faults>>

PiInit ==
    /\ req \in Requests /\ machine \in Machines /\ available \in BOOLEAN
    /\ pending = {} /\ facts = {} /\ pc = "scan" /\ reboot = FALSE
    /\ outcome = "none" /\ faults = 0

(***************************************************************************)
(* Requests                                                                *)
(***************************************************************************)
JavaScript == {"npm", "pnpm", "yarn", "bun"}
Registries == {"python", "rust", "dotnet"}

(* executable_for.                                                         *)
Known(r) == r.provider \in {"winget", "chocolatey", "scoop", "go", "powershell", "vscode"}
                              \cup JavaScript \cup Registries

(* validate_provider_specific_id: a slash is for Go only; then the grammar *)
(* of the JavaScript managers is applied.                                  *)
ValidId(r) ==
    /\ r.shape # "backslash" /\ (r.shape \in {"path", "scoped"} => r.provider = "go")
    /\ r.provider \in JavaScript => r.shape # "path"

(* validate_package_identity, validate_identifier, validate_source_text,   *)
(* validate_exact_version: an id, names and a version that may be passed   *)
(* as arguments.                                                           *)
ValidIdentity(r) == r.shape # "option" /\ r.version \notin {"latest", "range"}

(* validate_source_metadata: a public URL without credentials.             *)
ValidSource(r) == r.url # "credentials"

(* validate_architecture against the scanned host.                         *)
ValidArchitecture(r) == r.arch

Valid(r) == ValidIdentity(r) /\ ValidSource(r) /\ ValidId(r) /\ ValidArchitecture(r)

(* unsupported_policy: the flags of the policy that the recipe can pass on.*)
MappedFlags(r) ==
    IF r.provider \in {"winget", "go", "powershell"}
    THEN {"accept_source", "accept_package", "silent", "allow_reboot"}
    ELSE IF r.provider = "chocolatey" THEN {"accept_source", "accept_package"}
    ELSE IF r.provider \in JavaScript \cup Registries THEN {"silent"}
    ELSE {}

(* The sources a recipe takes: reviewed_chocolatey_source,                 *)
(* reviewed_scoop_source and the checks in the branches of build_recipe.   *)
(* "partial" is a name without its identifier or URL.                      *)
ReviewedSources(r) ==
    CASE r.provider = "winget" -> {"reviewed", "custom"}
      [] r.provider = "chocolatey" -> {"none", "reviewed"}
      [] r.provider \in {"scoop", "python"} -> {"reviewed"}
      [] r.provider \in {"rust", "dotnet"} -> {"reviewed", "partial"}
      [] r.provider \in JavaScript \cup {"vscode"} -> {"none", "reviewed", "partial", "custom"}
      [] OTHER -> {}

(* build_recipe: automatic, or manual for the user.                        *)
Automatic(r) ==
    /\ Known(r) /\ r.version # "none" /\ ~r.hash
    /\ r.flags \subseteq MappedFlags(r) /\ r.source \in ReviewedSources(r)

(* What the command line accepts on behalf of the user.                    *)
AcceptsLicense(r) ==
    \/ r.provider = "winget" /\ "accept_package" \in r.flags
    \/ r.provider = "chocolatey" /\ r.flags \cap {"accept_source", "accept_package"} # {}

(***************************************************************************)
(* What is installed                                                       *)
(***************************************************************************)
Wanted(r) == [id |-> r.id, version |-> r.version, source |-> r.source]

(* source_matches: the recorded source of the observed package; a request  *)
(* without one accepts any, or "global" of the Node package managers.      *)
SourceMatches(entry, r) ==
    \/ entry.source = r.source
    \/ r.source = "none" /\ (r.provider \in {"npm", "pnpm", "yarn", "bun"} => entry.source = "global")

(* Faulty variant: a package of a recorded source is never recognised.     *)
InstalledWithoutSource(r, seen) == ~r.hash /\ \E e \in seen : e.id = r.id /\ e.version = r.version /\ e.source = "none"

(* Faulty variant: any version will do.                                    *)
InstalledAnyVersion(r, seen) == ~r.hash /\ \E e \in seen : e.id = r.id

(* installed_exact, versions_equal; the extension handler lists anew and   *)
(* takes any version when none was captured.                               *)
InstalledExact(r, seen) ==
    /\ ~r.hash
    /\ \E e \in seen :
          /\ e.id = r.id
          /\ IF r.provider = "vscode" THEN r.version \in {"none", e.version}
             ELSE e.version = r.version /\ SourceMatches(e, r)

(* The listing that verifies: of the package, or of all there are.         *)
Listing(r) ==
    IF r.provider \in {"winget", "chocolatey", "python"} THEN {e \in machine : e.id = r.id} ELSE machine

(* output_contains_identity: id and version occur somewhere in the text.   *)
OutputContainsIdentity(r, listed) ==
    LET words == UNION {{e.id, e.version} : e \in listed}
    IN /\ \E w \in words : <<w, r.id>> \in Contains
       /\ \E w \in words : <<w, r.version>> \in Contains

(* parse_extensions and installed: the extension handler compares fields.  *)
ExtensionListed(r, listed) == \E e \in listed : e.id = r.id /\ e.version = r.version

Verified(r) ==
    IF r.provider = "vscode" THEN ExtensionListed(r, Listing(r)) ELSE OutputContainsIdentity(r, Listing(r))

(***************************************************************************)
(* The handlers                                                            *)
(***************************************************************************)
Settled == {"completed", "skipped"}
Ends(result) == pc' = "scan" /\ outcome' = result
Fault == faults < MaxFaults /\ faults' = faults + 1

(* A run is started or resumed: the target is scanned.                     *)
Scan ==
    /\ pc = "scan" /\ outcome \notin Settled \cup {"waiting", "invalid", "reboot"}
    /\ facts' = machine /\ pc' = "check" /\ outcome' = "none"
    /\ UNCHANGED <<req, machine, pending, available, reboot, faults>>

(* The package handler goes by the scan; the extension handler lists.      *)
Seen == IF req.provider = "vscode" THEN machine ELSE facts

(* is_satisfied, or the same tests at the start of execute.                *)
IsSatisfied ==
    /\ pc = "check"
    /\ IF ~Valid(req) THEN Ends("invalid")
       ELSE IF InstalledExact(req, Seen) /\ (req.provider = "vscode" => available) THEN Ends("skipped")
       ELSE pc' = "execute" /\ outcome' = outcome
    /\ UNCHANGED <<req, machine, pending, facts, available, reboot, faults>>

(* execute up to the first process.                                        *)
Execute ==
    /\ pc = "execute"
    /\ \/ /\ Fault /\ Ends("cancelled")
       \/ /\ UNCHANGED faults
          /\ IF Known(req) /\ available /\ (Automatic(req) \/ req.provider = "vscode")
             THEN pc' = (IF req.provider = "vscode" THEN "list" ELSE "install") /\ outcome' = outcome
             ELSE Ends("waiting")
    /\ reboot' = FALSE
    /\ UNCHANGED <<req, machine, pending, facts, available>>

(* The extension handler's execute lists the extensions once more, and a   *)
(* failed listing is an error; installing and listing again then go as for *)
(* a package.                                                              *)
ListExtensions ==
    /\ pc = "list"
    /\ \/ Fault /\ \E r \in {"failed", "cancelled"} : Ends(r)
       \/ /\ UNCHANGED faults
          /\ IF InstalledExact(req, machine) THEN Ends("skipped")
             ELSE IF req.version = "none" THEN Ends("waiting")
             ELSE pc' = "install" /\ outcome' = outcome
    /\ UNCHANGED <<req, machine, pending, facts, available, reboot>>

Others == {e \in machine : e.id # req.id}

(* The provider's process: it installs the version, keeps another one and  *)
(* says so with success, needs a reboot, fails, or is stopped after it had *)
(* or had not installed the package.                                       *)
RunInstall ==
    /\ pc = "install"
    /\ \/ /\ ~(req.provider \in Refuses /\ Wanted(req) \in machine)
          /\ machine' = Others \cup {Wanted(req)} /\ pc' = "verify"
          /\ UNCHANGED <<pending, reboot, outcome, faults>>
       \/ /\ \E e \in machine : e.id = req.id /\ e # Wanted(req)
          /\ req.provider \notin Refuses /\ Fault
          /\ pc' = "verify" /\ UNCHANGED <<machine, pending, reboot, outcome>>
       \/ /\ ~(req.provider \in Refuses /\ Wanted(req) \in machine)
          /\ req.provider \notin {"vscode"} /\ Fault
          /\ reboot' = TRUE /\ pc' = "verify"
          /\ \/ machine' = Others \cup {Wanted(req)} /\ UNCHANGED pending
             \/ pending' = {Wanted(req)} /\ UNCHANGED machine
          /\ UNCHANGED outcome
       \/ /\ req.provider \in Refuses /\ Wanted(req) \in machine
          /\ Ends("failed") /\ UNCHANGED <<machine, pending, reboot, faults>>
       \/ /\ Fault /\ \E r \in {"failed", "cancelled"} : Ends(r)
          /\ machine' \in {machine, Others \cup {Wanted(req)}}
          /\ UNCHANGED <<pending, reboot>>
    /\ UNCHANGED <<req, facts, available>>

(* The verification lists what is installed; the exit codes 3010 and 1641  *)
(* of the installation make it wait for the reboot.                        *)
RunVerify ==
    /\ pc = "verify"
    /\ \/ Fault /\ Ends("cancelled")
       \/ Fault /\ Ends(IF reboot THEN "reboot" ELSE "failed")
       \/ UNCHANGED faults /\ Ends(IF reboot THEN "reboot" ELSE IF Verified(req) THEN "completed" ELSE "failed")
    /\ UNCHANGED <<req, machine, pending, facts, available, reboot>>

Crash ==
    /\ pc \notin {"scan"} /\ Fault /\ Ends("killed")
    /\ UNCHANGED <<req, machine, pending, facts, available, reboot>>

(* The user restarts Windows: the pending installation is finished.        *)
Reboot ==
    /\ pc = "scan" /\ outcome = "reboot" /\ outcome' = "rebooted"
    /\ machine' = IF pending = {} THEN machine ELSE Others \cup pending
    /\ pending' = {} /\ reboot' = FALSE
    /\ UNCHANGED <<req, facts, available, pc, faults>>

(* The user installs the provider, or the package by hand, and acknowledges. *)
Acknowledge ==
    /\ pc = "scan" /\ outcome = "waiting" /\ outcome' = "acknowledged"
    /\ available' = TRUE
    /\ machine' \in IF req.version = "none" \/ Automatic(req) THEN {machine} ELSE {machine, Others \cup {Wanted(req)}}
    /\ UNCHANGED <<req, pending, facts, pc, reboot, faults>>

PiNext ==
    \/ Scan \/ IsSatisfied \/ Execute \/ ListExtensions \/ RunInstall \/ RunVerify \/ Crash \/ Reboot \/ Acknowledge

PiSpec == PiInit /\ [][PiNext]_piVars

(***************************************************************************)
(* Properties                                                              *)
(***************************************************************************)
IsInstalled == \E e \in machine : e.id = req.id /\ req.version \in {"none", e.version}

(* What is skipped as already there, and an extension that is reported as  *)
(* installed, is installed in the exact version, through all the stopped   *)
(* attempts (installed_exact, VsCodeRestoreHandler::installed).            *)
ExactIsInstalled ==
    outcome = "skipped" \/ (outcome = "completed" /\ req.provider = "vscode") => IsInstalled

(***************************************************************************)
(* Said by the code or its documents, and not kept (see the README)        *)
(***************************************************************************)
(* Every package that is reported as installed is installed in the exact   *)
(* version ("provider install and exact verification").                    *)
CompletedIsInstalled == outcome = "completed" => IsInstalled

(* A run settles no package that still waits for a reboot, whatever stops  *)
(* the attempt that the installer told so (waiting_for_reboot).            *)
RebootComesFirst == outcome \in Settled => pending = {}

(* The id of a scoped JavaScript package passes the validation.            *)
ScopedIsValid == req.provider \in JavaScript /\ req.shape = "scoped" => outcome # "invalid"

(* Licences are accepted where the policy accepts package agreements.      *)
LicenseIsExplicit ==
    pc = "install" /\ AcceptsLicense(req) => "accept_package" \in req.flags
=============================================================================
