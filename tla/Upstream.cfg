\* Two queries for one name, failover and retries on two servers or a reload, under fairness.
CONSTANTS
    Goroutines = {g1, g2}
    Names = {n1}
    MaxServers = 2
    Layouts <- MCLayouts
    Retries = 2
    MaxFails = 2
    FailWindow = 1
    CacheEnabled = TRUE
    TTLOverride = 0
    NegativeTTL = 1
    TTLs = {1}
    MaxTime = 2
    MaxResolver = 1
SPECIFICATION FairSpec
INVARIANTS NoStaleReply AnswersFromOwnServers GivesUpOnlyAfterFailures
PROPERTIES EveryQueryEnds
