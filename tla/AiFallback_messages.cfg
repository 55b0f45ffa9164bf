SPECIFICATION Spec
CONSTANTS
    Conversations = {c1}
    Clients = {k1, k2}
    Workers = {w1, w2}
    MaxClaims = 1
    BatchSize = 1
    MaxHuman = 2
    MaxClock = 1
SYMMETRY Twins
INVARIANT ActiveJobsAreWanted
PROPERTY PutsHumansFirst
