\* Two questions of any kind and any strategy; multiple choice is not to be stacked.
SPECIFICATION Spec
CONSTANTS
    Questions = {q1, q2}
    Strategies = {"mean", "median", "stacking", "conditional_stacking"}
    Kinds = {"binary", "mc", "numeric", "per_bin", "date"}
    StackedKinds = {"binary", "numeric", "per_bin", "date"}
    FallbackSettings = {TRUE, FALSE}
INVARIANTS
    RecordsAreTrue
    ProcessedOnce
    CountersAddUp
\* A question that is published, or lost, is done with.
CHECK_DEADLOCK FALSE
