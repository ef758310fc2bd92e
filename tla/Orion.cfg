SPECIFICATION Spec
CONSTANTS
    None = None
    Streams <- AllStreams
    RefineryStreams <- Refinery
    Worlds <- TheWorlds
    Domains <- TheDomains
    Legacy <- OldFile
    BatchSize = 2
    FlushVerified = 1
    FlushTotal = 1
    MaxBoots = 2
    MaxExtras = 2
CHECK_DEADLOCK FALSE
INVARIANTS
    
    TrainingGate
PROPERTIES
    MarkedStaysOut
    
