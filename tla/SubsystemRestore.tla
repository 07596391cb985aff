--------------------------- MODULE SubsystemRestore -------------------------
(***************************************************************************)
(* The handlers that restore a Docker image, a Docker volume and a WSL     *)
(* distribution (reforge-restore, handlers/docker.rs and handlers/wsl.rs): *)
(* one operation, attempted again and again by processes that may be       *)
(* cancelled or killed, on a machine that its owner uses meanwhile.        *)
(*                                                                         *)
(* A command of Docker or WSL ends well, fails, runs out of time or is     *)
(* cancelled; in the last three cases its effect may be there, in part.    *)
(* How the archive is staged is the subject of ArtifactStaging.            *)
(***************************************************************************)
EXTENDS Naturals, FiniteSets

CONSTANTS
    Operations,    \* [kind, named, image, tagged, version]: what may be restored
    Archive,       \* the image the archive holds
    Owner,         \* what the owner of the machine does meanwhile
    MaxAttempts,   \* processes that try
    MaxOwner       \* acts of the owner

VARIABLES
    op,            \* the operation
    machine,       \* what the machine has
    facts,         \* TargetFacts: what the scan of this process found
    pc, outcome, cancel, attempts, acts,
    late,          \* the volume was created after this attempt had looked for it,
                   \* or the daemon was away as it looked
    removed,       \* the owner removed the volume after this attempt had filled it
    lost           \* data of the owner was overwritten

subVars == <<op, machine, facts, pc, outcome, cancel, attempts, acts, late, removed, lost>>

NoImage == "none"
Images == {"i1", "i2"}
Machines ==
    [volume : {"none", "empty", "partial", "whole", "foreign", "mixed"},
     images : SUBSET Images, tag : Images \cup {NoImage},
     distro : {0, 1, 2}, dir : BOOLEAN,
     exe : BOOLEAN, ready : BOOLEAN, helper : {"none", "pinned", "nameless"}]
Shapes ==
    [kind : {"image", "volume", "wsl"}, named : BOOLEAN, image : Images \cup {NoImage},
     tagged : BOOLEAN, version : Nat]
Facts == [present : BOOLEAN, distro : {0, 1, 2}, provider : BOOLEAN, room : BOOLEAN]
Outcomes == {"none", "completed", "skipped", "waiting", "cancelled", "failed", "killed"}
PCs == {"idle", "scanned", "start", "info", "helper", "look", "stage", "create", "extract", "verify",
        "load", "inspect", "status", "import", "list"}

(* Operations as the plan has them, and an archive of one image.           *)
SubAssumption ==
    /\ Operations \subseteq Shapes /\ Archive \in Images
    /\ MaxAttempts \in Nat /\ MaxOwner \in Nat

(* The machine only ever holds what Docker and WSL can hold.               *)
SubTypeOK ==
    /\ op \in Operations /\ machine \in Machines /\ facts \in Facts
    /\ pc \in PCs /\ outcome \in Outcomes /\ cancel \in BOOLEAN
    /\ attempts \in 0..MaxAttempts /\ acts \in 0..MaxOwner
    /\ late \in BOOLEAN /\ removed \in BOOLEAN /\ lost \in BOOLEAN

SubInit ==
    /\ op \in Operations
    /\ machine \in [volume : {"none", "foreign"}, images : SUBSET {"i2"}, tag : {NoImage},
                    distro : {0, 1}, dir : {FALSE}, exe : {TRUE}, ready : BOOLEAN,
                    helper : {"pinned", "none"}]
    /\ facts = [present |-> FALSE, distro |-> 0, provider |-> FALSE, room |-> FALSE]
    /\ pc = "idle" /\ outcome = "none" /\ cancel = FALSE
    /\ attempts = 0 /\ acts = 0 /\ late = FALSE /\ removed = FALSE /\ lost = FALSE

(***************************************************************************)
(* What is on the machine                                                  *)
(***************************************************************************)

(* validate_image, validate_volume, validate_wsl_spec.                     *)
ValidSpec(o) == o.named /\ (o.kind = "wsl" => o.version \in 0..2)

(* Faulty variant: a distribution of any version.                          *)
ContainsByName(o, m) ==
    \/ o.kind = "image" /\ o.image # NoImage /\ o.image \in m.images
    \/ o.kind = "image" /\ o.image = NoImage /\ m.tag # NoImage
    \/ o.kind = "volume" /\ m.volume # "none"
    \/ o.kind = "wsl" /\ o.version # 0 /\ m.distro # 0

(* target_contains_image goes by the identity if the operation has one,    *)
(* target_contains_volume by the name, target_contains_distribution by the *)
(* name and the version.                                                   *)
Contains(o, m) ==
    \/ o.kind = "image" /\ o.image # NoImage /\ o.image \in m.images
    \/ o.kind = "image" /\ o.image = NoImage /\ m.tag # NoImage
    \/ o.kind = "volume" /\ m.volume # "none"
    \/ o.kind = "wsl" /\ o.version # 0 /\ m.distro = o.version

(* Faulty variant: that the reference exists is enough.                    *)
ImageListed(o, m) == m.tag # NoImage

(* docker_image_verified: the identity if there is one, and the reference. *)
ImageVerified(o, m) ==
    /\ m.tag # NoImage
    /\ o.image # NoImage => m.tag = o.image

End(result) == outcome' = result /\ pc' = "idle"
Quiet == UNCHANGED <<op, facts, cancel, attempts, acts, late, removed, lost>>
Answer(result) == End(result) /\ Quiet /\ UNCHANGED machine
GoTo(next) == pc' = next /\ outcome' = outcome /\ Quiet /\ UNCHANGED machine

(* A command without effect: it is cancelled, or it ended well, or not.    *)
Asks(at, succeeds, next, otherwise) ==
    /\ pc = at
    /\ \/ cancel /\ Answer("cancelled")
       \/ ~cancel /\ succeeds /\ GoTo(next)
       \/ ~cancel /\ Answer(otherwise)

(***************************************************************************)
(* An attempt                                                              *)
(***************************************************************************)
(* A process scans the target: everything the handler asks of TargetFacts  *)
(* is what the machine had then.                                           *)
Begin ==
    /\ pc = "idle" /\ outcome \notin {"completed", "skipped"} /\ attempts < MaxAttempts
    /\ attempts' = attempts + 1 /\ cancel' = FALSE /\ late' = FALSE /\ removed' = FALSE
    /\ facts' \in [present : {Contains(op, machine)}, distro : {machine.distro},
                   provider : {machine.ready}, room : BOOLEAN]
    /\ pc' = "scanned" /\ outcome' = "none"
    /\ UNCHANGED <<op, machine, acts, lost>>

(* is_satisfied, of the scan; a volume is never called satisfied.          *)
Satisfied ==
    /\ pc = "scanned"
    /\ IF ~ValidSpec(op) THEN Answer("failed")
       ELSE IF op.kind # "volume" /\ facts.present THEN Answer("skipped")
       ELSE GoTo("start")

StartImage ==
    /\ pc = "start" /\ op.kind = "image"
    /\ IF cancel THEN Answer("cancelled")
       ELSE IF facts.present THEN Answer("skipped")
       ELSE IF ~facts.provider \/ ~machine.exe \/ ~facts.room THEN Answer("waiting")
       ELSE GoTo("stage")

StartVolume ==
    /\ pc = "start" /\ op.kind = "volume"
    /\ IF cancel THEN Answer("cancelled")
       ELSE IF ~facts.provider \/ ~machine.exe \/ facts.present \/ ~facts.room THEN Answer("waiting")
       ELSE GoTo("info")

StartWsl ==
    /\ pc = "start" /\ op.kind = "wsl"
    /\ IF cancel THEN Answer("cancelled")
       ELSE IF ~machine.exe \/ ~facts.provider \/ ~facts.room \/ op.version = 0 THEN Answer("waiting")
       ELSE GoTo("status")

(* wsl --status; docker info; docker image inspect of the helper.          *)
Status == Asks("status", machine.ready, "stage", "waiting")
Info == Asks("info", machine.ready, "helper", "waiting")
FindHelper == Asks("helper", machine.ready /\ machine.helper = "pinned", "look", "waiting")

(* Faulty variant: only a failing answer stops the attempt.                *)
LookForVolumeOnce ==
    /\ pc = "look"
    /\ \/ cancel /\ Answer("cancelled")
       \/ ~cancel /\ Answer("waiting")
       \/ ~cancel /\ GoTo("stage")

(* docker volume inspect: any failure of the command is taken for absence  *)
(* of the volume, that of a daemon that is away too.                       *)
LookForVolume ==
    /\ pc = "look"
    /\ \/ cancel /\ Answer("cancelled")
       \/ ~cancel /\ Answer("waiting")                \* no answer in time
       \/ ~cancel /\ machine.volume # "none" /\ Answer("waiting")
       \/ /\ ~cancel /\ (machine.volume = "none" \/ ~machine.ready)
          /\ pc' = "stage" /\ late' = (late \/ ~machine.ready)
          /\ UNCHANGED <<op, machine, facts, outcome, cancel, attempts, acts, removed, lost>>

(* stage_subsystem_artifact; the WSL handler then wants the install        *)
(* location to be free.                                                    *)
Stage ==
    /\ pc = "stage"
    /\ \/ cancel /\ Answer("cancelled")
       \/ ~cancel /\ Answer("failed")
       \/ ~cancel /\ op.kind = "wsl" /\ machine.dir /\ Answer("waiting")
       \/ /\ ~cancel /\ (op.kind = "wsl" => ~machine.dir)
          /\ GoTo(CASE op.kind = "image" -> "load" [] op.kind = "volume" -> "create"
                    [] op.kind = "wsl" -> "import")

(* How a command that changes the machine ends: `whole` when it ran to its *)
(* end, `parts` what else it may leave behind.                             *)
Changes(at, whole, parts, next) ==
    /\ pc = at
    /\ \/ cancel /\ machine' \in parts \cup {machine, whole} /\ End("cancelled")
       \/ ~cancel /\ machine' \in parts \cup {machine, whole} /\ End("failed")
       \/ ~cancel /\ machine.ready /\ machine' = whole /\ pc' = next /\ outcome' = outcome

Load ==
    /\ Changes("load", [machine EXCEPT !.images = @ \cup {Archive},
                                       !.tag = IF op.tagged THEN Archive ELSE @], {}, "inspect")
    /\ Quiet

InspectImage ==
    /\ pc = "inspect"
    /\ \/ cancel /\ Answer("cancelled")
       \/ ~cancel /\ Answer("failed")
       \/ ~cancel /\ ImageVerified(op, machine) /\ Answer("completed")

(* docker volume create succeeds for a volume that exists already.         *)
CreateVolume ==
    /\ Changes("create", [machine EXCEPT !.volume = IF @ = "none" THEN "empty" ELSE @], {}, "extract")
    /\ Quiet

Extracted(v) == IF v \in {"foreign", "mixed"} THEN "mixed" ELSE "whole"

(* Faulty variant: an extraction that failed is verified like any other.   *)
ExtractAnyhow ==
    /\ pc = "extract"
    /\ \/ cancel /\ machine' = machine /\ End("cancelled")
       \/ /\ ~cancel /\ machine' \in {[machine EXCEPT !.volume = Extracted(@)],
                                      [machine EXCEPT !.volume = "partial"]}
          /\ pc' = "verify" /\ outcome' = outcome
    /\ UNCHANGED <<op, facts, cancel, attempts, acts, late, removed, lost>>

(* docker run of the pinned helper with tar; a volume that is gone by then *)
(* is created by the mount.                                                *)
Extract ==
    /\ Changes("extract", [machine EXCEPT !.volume = Extracted(@)],
               {[machine EXCEPT !.volume = IF @ \in {"foreign", "mixed"} THEN "mixed" ELSE "partial"]},
               "verify")
    /\ lost' = (lost \/ (machine.volume = "foreign" /\ machine'.volume = "mixed"))
    /\ UNCHANGED <<op, facts, cancel, attempts, acts, late, removed>>

(* docker volume inspect again; it shows the name and the driver.          *)
VerifyVolume ==
    /\ pc = "verify"
    /\ \/ cancel /\ Answer("cancelled")
       \/ ~cancel /\ Answer("failed")
       \/ ~cancel /\ machine.volume # "none" /\ Answer("completed")

(* wsl --import refuses a name that is registered; it registers the        *)
(* distribution last.                                                      *)
Import ==
    /\ \/ /\ machine.distro = 0
          /\ Changes("import", [machine EXCEPT !.distro = op.version, !.dir = TRUE],
                     {[machine EXCEPT !.dir = TRUE]}, "list")
       \/ /\ machine.distro # 0 /\ pc = "import" /\ machine' = machine
          /\ End(IF cancel THEN "cancelled" ELSE "failed")
    /\ Quiet

(* wsl_listing_contains: the name with the version, on a listing all lines *)
(* of which are understood.                                                *)
ListDistributions ==
    /\ pc = "list"
    /\ \/ cancel /\ Answer("cancelled")
       \/ ~cancel /\ Answer("failed")
       \/ ~cancel /\ machine.distro = op.version /\ Answer("completed")

(***************************************************************************)
(* The surroundings                                                        *)
(***************************************************************************)
Cancel ==
    /\ pc # "idle" /\ ~cancel /\ cancel' = TRUE
    /\ UNCHANGED <<op, machine, facts, pc, outcome, attempts, acts, late, removed, lost>>

(* The process dies; a command that runs may end its work all the same.    *)
Crash ==
    /\ pc # "idle" /\ End("killed")
    /\ machine' \in {machine} \cup
         {m \in {[machine EXCEPT !.volume = "empty"]} : pc = "create" /\ machine.volume = "none"} \cup
         {m \in {[machine EXCEPT !.volume = "partial"], [machine EXCEPT !.volume = "whole"]} :
             pc = "extract" /\ machine.volume \in {"none", "empty"}} \cup
         {m \in {[machine EXCEPT !.dir = TRUE]} : pc = "import"} \cup
         {m \in {[machine EXCEPT !.dir = TRUE, !.distro = op.version]} :
             pc = "import" /\ machine.distro = 0} \cup
         {m \in {[machine EXCEPT !.images = @ \cup {Archive},
                                  !.tag = IF op.tagged THEN Archive ELSE @]} : pc = "load"}
    /\ UNCHANGED <<op, facts, cancel, attempts, acts, late, removed, lost>>

(* At any moment, between two commands of an attempt too.                  *)
OwnerActs(act) ==
    /\ act \in Owner /\ acts < MaxOwner /\ acts' = acts + 1
    /\ \/ act = "create" /\ machine.volume = "none" /\ op.kind = "volume"
          /\ machine' = [machine EXCEPT !.volume = "foreign"]
       \/ act = "remove" /\ machine.volume # "none"
          /\ machine' = [machine EXCEPT !.volume = "none"]
       \/ act = "clear" /\ machine.dir
          /\ machine' = [machine EXCEPT !.dir = FALSE, !.distro = 0]
       \/ act = "daemon" /\ machine' = [machine EXCEPT !.ready = ~@]
       \/ act = "pull" /\ \E h \in {"none", "pinned", "nameless"} \ {machine.helper} :
                             machine' = [machine EXCEPT !.helper = h]
       \/ act = "retag" /\ machine' = [machine EXCEPT !.tag = "i2", !.images = @ \cup {"i2"}]
    /\ late' = (late \/ (act = "create" /\ pc \in {"stage", "create", "extract"}))
    /\ removed' = (removed \/ (act = "remove" /\ pc = "verify"))
    /\ UNCHANGED <<op, facts, pc, outcome, cancel, attempts, lost>>

SubNext ==
    \/ Begin \/ Satisfied \/ StartImage \/ StartVolume \/ StartWsl \/ Status \/ Info \/ FindHelper
    \/ LookForVolume \/ Stage \/ Load \/ InspectImage \/ CreateVolume \/ Extract \/ VerifyVolume
    \/ Import \/ ListDistributions \/ Cancel \/ Crash
    \/ \E act \in Owner : OwnerActs(act)

SubSpec == SubInit /\ [][SubNext]_subVars

(***************************************************************************)
(* Properties                                                              *)
(***************************************************************************)
Finishes(kind, results) == op.kind = kind /\ pc # pc' /\ outcome' \in results

(* A volume is called restored only when the whole archive is in it, over  *)
(* any sequence of attempts that were cancelled, failed or killed before,  *)
(* unless the owner removed the volume between the extraction and the      *)
(* verification, which sees only its name (execute_volume).                *)
CompletedIsWhole ==
    Finishes("volume", {"completed"}) => machine.volume \in {"whole", "mixed"} \/ removed

(* An image is called restored only when the reference leads to the        *)
(* recorded identity (docker_image_verified).                              *)
CompletedIsIdentical ==
    Finishes("image", {"completed"}) /\ op.image # NoImage => machine.tag = op.image

(* A distribution is called restored only when it is listed with the       *)
(* recorded version, whatever earlier imports left behind, and present     *)
(* only when the scan of this process saw it so (execute_import,           *)
(* is_satisfied).                                                          *)
DistributionIsRight ==
    /\ Finishes("wsl", {"completed"}) => machine.distro = op.version
    /\ Finishes("wsl", {"skipped"}) => facts.distro = op.version

(* Data is overwritten only in a volume that was created after the attempt *)
(* had looked for it, or when the daemon was away as it looked             *)
(* (execute_volume).                                                       *)
ForeignIsKept ==
    ~lost /\ lost' => late

(***************************************************************************)
(* Said by the code or its documents, and not kept (see the README)        *)
(***************************************************************************)
(* What the user is told of an existing volume: its data cannot be         *)
(* replaced automatically (execute_volume).                                *)
NeverReplaced == ~lost
=============================================================================
