CONSTANTS
    confirm = confirm
    install = install
    check = check
    once = once
    restart = restart
    Ops = {install, check}
    Manual = {}
    MaxAttempt = 2
    Procs = {p1, p2}
    OpSeq <- ChainSeq
    Prereq <- ChainPrereq
    Verify = {check}
    Reboot = {}
    Relevant <- ChainRelevant
    NonIdempotent = {}
    Halting = {}
    Fingerprinted = {}
    Present = {}
    MaxFaults = 1
    MaxBlocks = 1
SPECIFICATION Spec
INVARIANTS
    StartedIsApproved
    StartedAfterPrerequisites
    CompletedMeansDone
    VerifiedOnEvidence
    EffectsAreJournalled
PROPERTIES
    JournalSpec
    ImplementsLifecycle
