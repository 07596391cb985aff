SPECIFICATION MCSpec
CHECK_DEADLOCK FALSE
CONSTANTS
    Specs <- PrSpecs
    Registered <- PrRegistered
    MaxTimeout = 2
    MaxLimit = 3
    MaxArgs = 1
    MaxArgBytes = 1
    Buffer = 2
    MaxWritten = 3
    Requests <- ElRequests
    Ops = {"o1", "o2"}
    Elevated = {"o1"}
    Stray <- ElStray
    JournalFile = "journal.sqlite"
    HelperFile = "journal.sqlite"
    MaxRetries = 1
    Procs = {"p1", "p2"}
    Runs = {"r1"}
    Versions = {1, 2}
    PlanActions <- SvcPlanActions
    MaxCommands = 3
    MaxEvents = 1
    MakeMachine <- TermMachine
    MakePresets <- TermAllPresets
    MakeDirs = {"documents"}
    MakeNames = {"a"}
    MakeFiles = {}
    MakeRuns = {}
    MakeOutside = 3
    UseMachine <- TermOneMachine
    UsePresets = {}
    UseDirs = {"documents", "drive"}
    UseNames = {"a"}
    UseFiles <- TermOneStart
    UseRuns = {"r1", "r2"}
    UseOutside = 1
    MaxRuns = 2
    MaxTokens = 2
    MaxRetained = 1
    MaxSelections = 2
    MaxPolls = 1
    DeskPicks = 0
    DeskClicks = 3
    DialogPicks = 4
    DialogClicks = 0
INVARIANTS
    ProcessesAreContained
    ElevationIsEarned
    RunsAreAccountedFor
    SessionsAreSafe
    JobsAreTracked
