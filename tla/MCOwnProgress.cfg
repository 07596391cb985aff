CONSTANTS
    confirm = confirm
    install = install
    check = check
    once = once
    restart = restart
    Ops = {install, restart}
    Manual = {}
    MaxAttempt = 3
    Procs = {p1}
    OpSeq <- RebootSeq
    Prereq <- RebootPrereq
    Verify = {}
    Reboot = {restart}
    Relevant <- RebootRelevant
    NonIdempotent = {}
    Halting = {}
    Fingerprinted = {install}
    Present = {}
    MaxFaults = 0
    MaxBlocks = 0
SPECIFICATION FairSpec
PROPERTIES
    ApprovedRunCompletes
