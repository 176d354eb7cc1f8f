\* Enough turns and calls to plan, fetch and conclude before a budget forces the end; turns of up to two calls.
SPECIFICATION Spec
CONSTANTS
    MaxSteps = 5
    MaxToolCalls = 5
    MaxGaps = 2
    MaxPlanNudges = 2
    MaxGateRejections = 1
    FetchFloor = 2
    WallDeadline = 2
    ConcludeThreshold = 1
    Pages = {p1, p2}
    Plans = {0, 3}
    MaxBatch = 2
INVARIANTS
    TypeOK
    ResearchIsPlanned
    ExternalCallsBounded
    NeverCutOffUnwarned
PROPERTIES
    EarlyConclusionsAreEarned
    AlwaysEnds
