SPECIFICATION MCSpec
CHECK_DEADLOCK FALSE
CONSTANTS
    Inventories <- SeInventories
    Requests <- SeRequests
    Large = 2
    MaxU64 = 5
    MaxComponents = 3
    MaxArtifacts = 3
    MaxWarnings = 5
    DiffPackages <- DfPackages
    DiffTargets <- DfTargets
    PlanPackages <- PlPackages
    PlanTargets <- PlTargets
    Selections <- PlSelections
    Trusts = {"UserApproved", "SignatureValidTrusted"}
    PayloadBytes = 4
    ProtectedRoots = {9}
    MaxPlanOperations = 14
    Wsl = 1
    Docker = 2
    MarginPercent = 50
    MarginBytes = 2
    MaxBytes = 255
    Plans <- VrPlans
    Facts <- VrFacts
    MaxSteps = 4
INVARIANTS
    SelectionIsSafe
    DiffIsSound
    PlanIsSound
    ReportIsHonest
