SPECIFICATION FairSpec
CONSTANTS
    Deployments = {1, 2}
    Scripts <- Pairs
    Fingerprint <- ThreeReleases
    Installed = 1
    Unreliable = {"durability", "runtime", "database", "migrate", "workers"}
    MaxFaults = 2
CHECK_DEADLOCK FALSE
INVARIANTS TypeOK HostIsAccountedFor StatusIsTrue OneSuccessPerTarget ProductionFollowsStaging
PROPERTIES NoWayBackAfterMigration EveryRequestIsAnswered
