SPECIFICATION Spec
CONSTANTS
    d1 = d1
    d2 = d2
    job = job
    mix = mix
    write = write
    read = read
    drop = drop
    api = api
    p = p
    a1 = a1
    a2 = a2
    None = None
    Task <- Tasks
    Of <- Submissions
    Skill = {write, read, drop}
    Origin = {api}
    Payload = {p}
    Rules <- MCRules
    Agent = {a1, a2}
    Offers <- MCOffers
    Implemented = {a1}
    Confidence = {30, 62, 80}
    CompletionLevel = 65
    FailureLevel = 40
    RetryLevel = 60
    MaxAttempts = 2
INVARIANTS
    RoutingInv
    ApprovalsCoverRuns
    ReviewIsCommitted
    HeldRanOnlyWhenLost
CHECK_DEADLOCK FALSE
