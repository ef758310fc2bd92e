SPECIFICATION MCSpec
CONSTANTS
    S1 = S1
    S2 = S2
    A1 = A1
    A2 = A2
    A3 = A3
    C1 = C1
    C2 = C2
    L1 = L1
    L2 = L2
    R1 = R1
    R2 = R2
    D1 = D1
    H1 = H1
    H2 = H2
    K1 = K1
    K2 = K2
    None = None
    Skills <- MCSkills
    Agents <- MCAgents
    Correction <- MCCorrection
    Content <- MCContent
    LessonIds <- MCLessonIds
    Requests <- MCRequests
    MinExamples = 2
    MaxLessons = 2
    MaxMemories = 2
    SkillLessons = 2
    Averages <- MCAverages
    Scores <- MCScores
    MaxExtras = 2
    Feedback <- MCFeedback
    MaxEvents = 3
    MinSample = 2
    Lead = 20
    Drop = 20
    CorrectionRate = 40
SYMMETRY Symmetry
INVARIANTS
    HeuristicsInv
    LessonsInv
PROPERTIES
    DecisionStands
    LateSkillsStay
CHECK_DEADLOCK FALSE
