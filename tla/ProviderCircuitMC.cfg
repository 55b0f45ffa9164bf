SPECIFICATION FairSpec
CONSTANTS
    Calls = {r1, r2}
    Route <- TwoTargets
    MaxAttempts = 2
    Threshold = 3
    SlowProbes = FALSE
    MaxFaults = 1
INVARIANT TypeOK
PROPERTIES LateResultsDecideNothing EveryCallEnds NeverShutForGood
