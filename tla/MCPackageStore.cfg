SPECIFICATION StoreSpec
SYMMETRY MCSymmetry
CONSTANTS
    Procs = {p1, p2}
    Pids = {1, 2}
    Files <- MCFiles
    Chunk = 2
    MaxFile = 3
    MaxObject = 2
    Attempts = 2
    MaxCrashes = 2
    MaxFaults = 1
INVARIANTS
    ObjectsAreTheirContent
    NoLeftovers
PROPERTIES
    ImplementsStore
