\* The real constants in units of 30 s; one question, two forecasters.
SPECIFICATION FairSpec
CONSTANTS
    NumQuestions = 1
    Models = {m1, m2}
    CloseTimes = {119, 122}
    NoClose = NoClose
    AdminClosures <- MCNoAdminClosures
    Strategy = "CONDITIONAL_STACKING"
    MaxConcurrentResearch = 1
    MinForecasters = 1
    StaticDeadline = 117
    PublishReserve = 2
    MinViable = 10
    FastPathThreshold = 60
    SoftDeadline = 20
    CruxDeadline = 6
    SearchDeadline = 14
    StackerDeadline = 17
    FallbackDeadline = 10
    StackingMinBudget = 3
    EnrichmentFloor = 0
INVARIANT
    WorkableHeadroomBeatsClose
CHECK_DEADLOCK FALSE
