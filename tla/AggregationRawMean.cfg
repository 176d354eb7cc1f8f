\* One question whose budget is spent is enough.
SPECIFICATION Spec
CONSTANTS
    Questions = {q1}
    Strategies = {"mean", "median", "stacking", "conditional_stacking"}
    Kinds = {"binary"}
    StackedKinds = {"binary", "numeric", "per_bin", "date"}
    FallbackSettings = {TRUE, FALSE}
INVARIANT
    OnlyLoneBinaryIsRaw
\* A question that is published, or lost, is done with.
CHECK_DEADLOCK FALSE
