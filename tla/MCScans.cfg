SPECIFICATION MCSpec
CHECK_DEADLOCK FALSE
CONSTANTS
    ScanRegistries <- DiRegistries
    Phases = 3
    MaxFound = 5
    MaxEdges = 3
    MaxEvidence = 4
    MaxWarnings = 3
    Selections <- AcSelections
    Disks <- AcDisks
    Sizes = {0, 2, 4}
    MaxRequests = 3
    MaxArtifacts = 4
    MaxTotal = 5
    MaxFile = 3
    LargeThreshold = 2
    MaxDepth = 2
    ArtifactWarnings = 3
    ArtifactChanges = 2
    Bytes <- CpBytes
    MaxLength = 4
    KeyRegistries <- RgRegistries
    Roots <- RgRoots
    RunRoot = "run"
    MaxValueBytes = 2
    MaxNameChars = 3
    NewValue <- RgNewValue
    RegistryChanges = 2
    Managers <- SvManagers
    NewServices <- SvNew
    MaxServices = 3
    MaxBuffer = 5
    ServiceChanges = 3
    Hierarchies <- TsHierarchies
    RootFolder = "r"
    MaxTasks = 3
    MaxFolders = 2
    MaxTaskDepth = 2
    Contents <- SiContents
    MaxItems = 3
    Worlds <- WdWorlds
    Exports <- WdExports
    MaxRounds = 2
    UserChanges = 1
INVARIANTS
    DiscoveryIsHonest
    GraphIsSound
    CollectionIsExact
    ScansAreAccountedFor
    WslPlansAreSound
