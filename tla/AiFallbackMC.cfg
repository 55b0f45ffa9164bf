SPECIFICATION FairSpec
CONSTANTS
    Conversations = {c1}
    Clients = {k1}
    Workers = {w1, w2}
    MaxClaims = 2
    BatchSize = 1
    MaxHuman = 1
    MaxClock = 0
INVARIANTS TypeOK AnswersAreSingle
PROPERTIES LegalTransitions EverythingEnds
