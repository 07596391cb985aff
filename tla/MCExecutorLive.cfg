CONSTANTS
    confirm = confirm
    install = install
    check = check
    once = once
    restart = restart
    Ops = {confirm, install, restart}
    Manual = {confirm}
    MaxAttempt = 4
    Procs = {p1}
    OpSeq <- LiveSeq
    Prereq <- LivePrereq
    Verify = {}
    Reboot = {restart}
    Relevant <- LiveRelevant
    NonIdempotent = {}
    Halting = {confirm}
    Fingerprinted = {}
    Present = {}
    MaxFaults = 1
    MaxBlocks = 2
SPECIFICATION FairSpec
PROPERTIES
    ApprovedRunCompletes
