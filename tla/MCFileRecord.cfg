SPECIFICATION MCSpec
CHECK_DEADLOCK FALSE
CONSTANTS
    Modes = {"PRESERVE_TARGET"}
    Package <- MCPackage
    Original <- MCOriginal
    Edits <- MCEdits
    MaxFaults = 3
    MaxEdits = 2
    SubOperations <- MCSubOperations
    Archive = "i1"
    Owner = {"create", "remove", "clear", "pull", "retag", "daemon"}
    MaxAttempts = 3
    MaxOwner = 3
    Servers <- MCServers
    Documents <- MCDocuments
    Order <- MCOrder
    HarnessEdits <- MCHarnessEdits
    BpOperations <- MCBpOperations
    MaxStarts = 2
    UserOperations <- EnvOperations
    UserRegistries <- EnvRegistries
    Foreign = {"x"}
    Key <- EnvKey
    Expandable = {"u"}
    Invalid = {"!"}
    Secret = {"s"}
    MaxEntries = 3
    MaxForeign = 2
    Procs = {"p", "q"}
    Bytes = {"a", "b", "m"}
    Packages <- StPackages
    ChunkBytes = 2
    MaxBytes = 3
    Tries = 2
    Volumes = {"c"}
    TempVolume = "c"
    FreeBytes = {5, 6}
    MaxNames = 3
    MaxStaged = 1
    MaxFailures = 1
    MaxCrashes = 1
    Requests <- PiRequests
    InstallMachines <- PiMachines
    TextContains <- PiOverlap
    Refuses = {"winget", "dotnet"}
INVARIANT
    OriginalsAreRecorded
