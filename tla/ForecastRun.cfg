SPECIFICATION FairSpec
CONSTANTS
    NumQuestions = 2
    Models = {m1, m2}
    CloseTimes = {1, 6, 8}
    NoClose = NoClose
    AdminClosures <- MCAdminClosures
    Strategy = "CONDITIONAL_STACKING"
    MaxConcurrentResearch = 1
    MinForecasters = 1
    StaticDeadline = 8
    PublishReserve = 1
    MinViable = 2
    FastPathThreshold = 6
    SoftDeadline = 2
    CruxDeadline = 1
    SearchDeadline = 1
    StackerDeadline = 1
    FallbackDeadline = 1
    StackingMinBudget = 1
    EnrichmentFloor = 0
INVARIANTS
    ForecastShareProtected
    CloseLimitedKeepsReserve
    EachDropCountedOnce
    ForfeitsAreCounted
PROPERTY
    EveryQuestionSettles
CHECK_DEADLOCK FALSE
