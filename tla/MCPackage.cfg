SPECIFICATION MCSpec
CHECK_DEADLOCK FALSE
CONSTANTS
    SecretIds = {1, 2, 3}
    Sources <- VaSources
    Approvals <- VaApprovals
    Passphrases <- VaPassphrases
    Adapters <- VaAdapters
    MaxRecords = 2
    MaxValue = 3
    MaxPlain = 3
    MaxPass = 1
    MaxAttempts = 2
    Inventories <- CrInventories
    Artifacts <- CrArtifacts
    Contents <- CrContents
    StartContents <- CrStart
    Selections <- CrSelections
    Sensitive = {"token"}
    Markers = {"ref"}
    Unstable = {"sk"}
    MaxDepth = 2
    MaxScan = 2
    Margin = 1
    Spaces <- CrSpaces
    MaxChanges = 1
INVARIANTS
    PackageIsWhole
    SecretsAreSafe
PROPERTY
    CreationIsSafe
