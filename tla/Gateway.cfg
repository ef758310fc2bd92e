SPECIFICATION MCSpec
CONSTANTS
    None = None
    Nobody = Nobody
    C1 = C1
    C2 = C2
    V1 = V1
    I1 = I1
    I2 = I2
    I3 = I3
    T1 = T1
    T2 = T2
    Calls <- MCCalls
    Viewers <- MCViewers
    Refused <- MCRefused
    Instances <- MCInstances
    Threads <- MCThreads
    MaxCrashes = 1
    MaxLost = 1
    MaxRequeues = 1
    MaxBoots = 2
    MaxUses = 2
    MaxProcs = 2
    MaxNotes = 1
CHECK_DEADLOCK FALSE
INVARIANTS
    
    ViewsStand
    ReplyIsMine
PROPERTIES
    CallsReturn
