SPECIFICATION FairSpec
CONSTANTS
    k1 = k1
    k2 = k2
    w1 = w1
    w2 = w2
    plain = plain
    artifacts = artifacts
    None = None
    Key <- OneKey
    Priority <- OnePriority
    Result <- OneResult
    Evidence <- WithEvidence
    MaxAttempts = 2
    LeaseTime = 2
    Backoff = 1
    MaxBackoff = 1
    MaxLag = 1
    Worker <- Workers2
    Concurrency = 1
    MaxStops = 2
INVARIANTS
    
    TokenMeansLost
PROPERTIES
    JobsFinish
    
