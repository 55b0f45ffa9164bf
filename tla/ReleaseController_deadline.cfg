SPECIFICATION Spec
CONSTANTS
    Deployments = {1, 2}
    Scripts <- Plain
    Fingerprint <- ThreeReleases
    Installed = 1
    Unreliable = {}
    MaxFaults = 1
CHECK_DEADLOCK FALSE
INVARIANT FailuresAreUndone
