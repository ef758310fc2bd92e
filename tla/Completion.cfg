SPECIFICATION MCSpec
CONSTANTS
    j1 = j1
    j2 = j2
    f1 = f1
    f2 = f2
    c1 = c1
    c2 = c2
    p1 = p1
    p2 = p2
    Job <- Jobs2
    File <- Files
    Content <- Contents
    Outputs <- Shapes
    Publisher <- Publishers
    MaxFaults = 1
    MaxDirect = 1
    Paths <- Files
    Payloads <- Contents
    NoPayload = NoPayload
    Batches <- MCBatches
    MaxVersion = 3
    MaxTroubles = 2
CHECK_DEADLOCK FALSE
INVARIANTS
    CompletionInv
    ReplayAddsNothing
    PayloadsStand
PROPERTIES
    DecisionsStand
    
