SPECIFICATION Spec
CONSTANTS
    Conversations = {c1}
    Clients = {k1, k2}
    Workers = {w1}
    MaxClaims = 1
    BatchSize = 1
    MaxHuman = 2
    MaxClock = 1
PROPERTY LockedMessagesAreStored
