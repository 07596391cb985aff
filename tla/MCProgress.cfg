SPECIFICATION MCFairSpec
CHECK_DEADLOCK FALSE
PROPERTIES
    ScansEnd
    WorkEnds
