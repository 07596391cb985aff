CONSTANTS
    confirm = confirm
    install = install
    check = check
    once = once
    restart = restart
    Ops = {confirm, install, once, check}
    Manual = {confirm}
    MaxAttempt = 3
    Procs = {p1}
    OpSeq <- ResumeSeq
    Prereq <- ResumePrereq
    Verify = {check}
    Reboot = {}
    Relevant <- ResumeRelevant
    NonIdempotent = {once}
    Halting = {}
    Fingerprinted = {}
    Present = {check}
    MaxFaults = 2
    MaxBlocks = 2
SPECIFICATION Spec
INVARIANTS
    BlockedHasAction
    ReturnsSettled
    NonIdempotentOnce
PROPERTIES
    RetryIsAcknowledged
