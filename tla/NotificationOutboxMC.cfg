SPECIFICATION FairSpec
CONSTANTS
    Events = {1}
    Recipients = {r1}
    Workers = {w1, w2}
    Answers = {"delivered", "retryable", "credential", "forbidden", "unknown"}
    MaxAttempts = 2
    Lease = 2
    BaseDelay = 1
    MaxDelay = 1
    NoRecipientsDelay = 1
    TranslationWait = 1
    RetryAfters = {0, 2}
    AttemptCap = 1
    MaxFaults = 1
INVARIANTS TypeOK AtMostOnce LedgerIsTrue ProcessedMeansSettled
PROPERTIES LedgerIsHistory KeepsPromise EveryEventSettles
