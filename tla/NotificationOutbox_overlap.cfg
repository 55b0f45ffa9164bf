SPECIFICATION Spec
CONSTANTS
    Events = {1}
    Recipients = {r1, r2}
    Workers = {w1}
    Answers = {"delivered", "retryable", "forbidden", "unknown"}
    MaxAttempts = 2
    Lease = 2
    BaseDelay = 1
    MaxDelay = 1
    NoRecipientsDelay = 1
    TranslationWait = 1
    RetryAfters = {0}
    AttemptCap = 1
    MaxFaults = 1
PROPERTY IterationsNeverOverlap
