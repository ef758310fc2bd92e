SPECIFICATION Spec
CONSTANTS
    k1 = k1
    k2 = k2
    plain = plain
    artifacts = artifacts
    None = None
    Key <- Keys
    Priority <- Priorities
    Result <- Results
    Evidence <- WithEvidence
    MaxAttempts = 2
    LeaseTime = 2
    Backoff = 1
    MaxBackoff = 2
    MaxLag = 1
INVARIANTS
    TypeOK
    OneLiveAttempt
    NeverStranded
    CompletedOnce
    EvidenceInOutbox
    TrailTellsStatus
PROPERTIES
    TerminalIsFinal
    ImplementsContract
