SPECIFICATION FairSpec
CONSTANTS
    Calls = {r1, r2}
    Route <- OneTarget
    MaxAttempts = 2
    Threshold = 3
    SlowProbes = FALSE
    MaxFaults = 0
PROPERTIES FailingTargetsOpen
